---------------------------- MODULE Spec2Model ----------------------------
(***************************************************************************)
(* Request execution core of llm-client: the error taxonomy, the           *)
(* RetryHandler loop, the TokenManager and the ClaudeClient send           *)
(* operations.                                                             *)
(*                                                                         *)
(* Specifications:                                                         *)
(*   SpecErr    - the error constructors applied to arbitrary arguments    *)
(*   SpecRetry  - RetryHandler.execute driving an arbitrary operation      *)
(*   SpecClient - ClaudeClient calls over a nondeterministic transport     *)
(***************************************************************************)
EXTENDS Integers, Sequences, FiniteSets, TLC

(***************************************************************************)
(* Bounds of the model.                                                    *)
(***************************************************************************)
\* largest maxAttempts a RetryHandler is constructed with
MaxAttemptsBound == 3
\* number of send/count/stream calls started on one client
MaxCallsTotal == 3

(***************************************************************************)
(* JavaScript values: an optional number is a number, undefined or NaN.    *)
(***************************************************************************)
Num(n) == [t |-> "number", v |-> n]

Undefined == [t |-> "undefined", v |-> 0]

NaN == [t |-> "NaN", v |-> 0]

\* truthiness of an optional number: undefined, NaN and 0 are falsy
Truthy(x) == x.t = "number" /\ x.v # 0

Min(a, b) == IF a <= b THEN a ELSE b

RECURSIVE Pow(_, _)
Pow(b, e) == IF e <= 0 THEN 1 ELSE b * Pow(b, e - 1)

\* String.prototype.includes at the granularity of words: a message is a
\* sequence of words
Includes(message, word) == \E i \in 1..Len(message) : message[i] = word

(***************************************************************************)
(* Error taxonomy (src/types/error-types.ts).  A thrown value is a record; *)
(* `class` is the constructor name, `id` tells objects of equal content    *)
(* apart (object identity); a message and a context are sequences of words *)
(* (context <<>> is undefined).                                            *)
(***************************************************************************)
ClaudeError(class, message, context) ==
  [class |-> class, message |-> message, context |-> context,
   isRetryable |-> FALSE, errorType |-> "none", statusCode |-> Undefined,
   retryAfter |-> Undefined, id |-> 0]

NetworkError(message, context) ==
  [ClaudeError("NetworkError", message, context) EXCEPT
     !.isRetryable = TRUE, !.errorType = "network", !.statusCode = Undefined]

ClientErrorRetryable(message, statusCode, context) ==
  [ClaudeError("ClientError", message, context) EXCEPT
     !.isRetryable = TRUE, !.errorType = "client", !.statusCode = Num(statusCode)]

ClientError(message, statusCode, context) ==
  [ClaudeError("ClientError", message, context) EXCEPT
     !.isRetryable = FALSE, !.errorType = "client", !.statusCode = Num(statusCode)]

ServerError(message, statusCode, context) ==
  [ClaudeError("ServerError", message, context) EXCEPT
     !.isRetryable = TRUE, !.errorType = "server", !.statusCode = Num(statusCode)]

RateLimitError(message, retryAfter, context) ==
  [ServerError(message, 429, context) EXCEPT
     !.class = "RateLimitError", !.retryAfter = retryAfter]

\* values that are not ClaudeErrors: Error, TypeError, SyntaxError, and a
\* thrown string (class "string")
JsError(class, message) ==
  [class |-> class, message |-> message, context |-> <<>>,
   isRetryable |-> FALSE, errorType |-> "none", statusCode |-> Undefined,
   retryAfter |-> Undefined, id |-> 0]

\* the prototype chain of each class
Ancestors(class) ==
  CASE class = "RateLimitError" -> {"RateLimitError", "ServerError", "ClaudeError", "Error"}
    [] class = "ServerError" -> {"ServerError", "ClaudeError", "Error"}
    [] class = "ClientError" -> {"ClientError", "ClaudeError", "Error"}
    [] class = "NetworkError" -> {"NetworkError", "ClaudeError", "Error"}
    [] class = "TypeError" -> {"TypeError", "Error"}
    [] class = "SyntaxError" -> {"SyntaxError", "Error"}
    [] class = "Error" -> {"Error"}
    [] OTHER -> {}

InstanceOf(e, class) == class \in Ancestors(e.class)

\* the same object, told apart from every other by the invocation that threw it
WithId(e, n) == [e EXCEPT !.id = n]

NoError == JsError("none", <<>>)

(***************************************************************************)
(* State.                                                                  *)
(***************************************************************************)
VARIABLES
  built,        \* SpecErr: the error object constructed last
  config,       \* RetryConfig of the RetryHandler (readonly)
  kind,         \* per run: what is executed ("mock" operation or a client call)
  pc,           \* per run: position of execute()
  stage,        \* per run: position inside the client's operation
  attempt,      \* per run: execute's local `attempt`
  delay,        \* per run: execute's local `delay`
  retryDelay,   \* per run: execute's local `retryDelay` of the last retry
  timer,        \* per run: the setTimeout of sleep(): none / pending / fired
  error,        \* per run: the value bound by `catch (error)` last
  thrown,       \* per run: the value the current invocation of the operation threw
  rejection,    \* per run: the value the call rejected with
  result,       \* per run: the value the call resolved with
  calls,        \* per run: invocations of the operation so far
  inFlight,     \* per run: invocations started and not yet settled
  sleeps,       \* per run: sleeps taken so far
  usage,        \* TokenManager.usage
  maxSessionTokens, \* TokenManager.maxSessionTokens
  transportCalls,   \* fetch() calls issued by the client so far
  deadline,     \* per run: the setTimeout of makeRequest: none / pending / fired
  response,     \* per run: the Response the last fetch resolved with
  emitted,      \* 'response' events: how many so far, the usage member of the
                \* last payload and the usage a listener read during the emit
  started,      \* client calls started so far
  processEnv,   \* MAX_SESSION_TOKENS the TokenManager was constructed under
  records,      \* the usage records tracked since construction or the last reset
  lastOp,       \* the TokenManager method that changed the usage last
  gpc,          \* position of the generator of StreamingClient.stream
  options,      \* the callbacks of the StreamingOptions passed to stream
  reader,       \* the reader of response.body: none / locked / released
  buffer,       \* stream's local `buffer`
  lines,        \* the lines of the `for` loop not yet processed
  messageId,    \* stream's local `messageId`
  yielded,      \* the elements the sequence has produced so far
  callbackLog,  \* the callbacks invoked so far, in order
  failure,      \* the value the sequence failed with
  exit,         \* the path on which the generator ended
  received,     \* the text reader.read() has delivered so far
  netbuf,       \* transport: text arrived and not yet read
  sending,      \* transport: rest of the line the server is writing
  linesSent,    \* transport: lines the server has begun
  closed,       \* transport: the server has closed the body
  call,         \* the call of a library function made last: function, argument, outcome
  clientConfig, \* the `config` of the ClaudeClient (readonly): model, maxTokens, temperature
  AI_PROVIDER,  \* process.env.AI_PROVIDER: unset (<<>>) or set to a string (<<v>>)
  conversations, \* the Map of the ConversationHistoryManager: id -> meta, messages
  added,        \* per stored conversation: the arguments of its addMessage calls, in order
  now,          \* the time `new Date()` gives
  seqs          \* per streamMessage call: the state of the sequence it returned

runVars == <<kind, pc, stage, attempt, delay, retryDelay, timer, error, thrown,
             rejection, result, calls, inFlight, sleeps>>

clientVars == <<usage, maxSessionTokens, transportCalls, deadline, response,
                emitted, started>>

tokenVars == <<processEnv, records, lastOp>>

streamVars == <<gpc, options, reader, buffer, lines, messageId, yielded,
                callbackLog, failure, exit, received, netbuf, sending,
                linesSent, closed>>

historyVars == <<conversations, added, now>>

libVars == <<call, clientConfig, AI_PROVIDER, historyVars, seqs>>

vars == <<built, config, runVars, clientVars, tokenVars, streamVars, libVars>>

\* the runs (calls) that can be in progress at the same time
Runs == {1, 2}

(***************************************************************************)
(* RetryHandler (src/utils/retry-handler.ts).                              *)
(***************************************************************************)
shouldRetryOffByOne(err, att) ==
  IF att > config.maxAttempts THEN FALSE
  ELSE IF InstanceOf(err, "ClaudeError") THEN err.isRetryable
  ELSE IF InstanceOf(err, "TypeError") /\ Includes(err.message, "fetch") THEN TRUE
  ELSE FALSE

shouldRetryAnyTypeError(err, att) ==
  IF att >= config.maxAttempts THEN FALSE
  ELSE IF InstanceOf(err, "ClaudeError") THEN err.isRetryable
  ELSE IF InstanceOf(err, "TypeError") THEN TRUE
  ELSE FALSE

shouldRetryAllClaudeErrors(err, att) ==
  IF att >= config.maxAttempts THEN FALSE
  ELSE IF InstanceOf(err, "ClaudeError") THEN TRUE
  ELSE IF InstanceOf(err, "TypeError") /\ Includes(err.message, "fetch") THEN TRUE
  ELSE FALSE

shouldRetryStopsEarly(err, att) ==
  IF att + 1 >= config.maxAttempts THEN FALSE
  ELSE IF InstanceOf(err, "ClaudeError") THEN err.isRetryable
  ELSE IF InstanceOf(err, "TypeError") /\ Includes(err.message, "fetch") THEN TRUE
  ELSE FALSE

shouldRetry(err, att) ==
  IF att >= config.maxAttempts THEN FALSE
  ELSE IF InstanceOf(err, "ClaudeError") THEN err.isRetryable
  ELSE IF InstanceOf(err, "TypeError") /\ Includes(err.message, "fetch") THEN TRUE
  ELSE FALSE

\* Math.floor(Math.random() * x): Math.random() is any value of [0, 1)
FloorRandomTimes(x) == IF x <= 0 THEN {0} ELSE 0..(x - 1)

\* the condition of the Retry-After branch of calculateDelay
retryAfterBranch(err) ==
  /\ InstanceOf(err, "RateLimitError")
  /\ Truthy(err.retryAfter)
  /\ config.respectRetryAfter

\* the exponential backoff is not capped at maxDelay
calculateDelayUncapped(err, baseDelay, att) ==
  IF retryAfterBranch(err)
  THEN LET retryAfterMs == err.retryAfter.v * 1000
       IN  {Min(retryAfterMs, config.maxRetryAfterDelay)}
  ELSE LET exponentialBackoff == Pow(2, att - 1) * config.initialDelay
       IN  FloorRandomTimes(exponentialBackoff)

\* the set of values calculateDelay can return
calculateDelay(err, baseDelay, att) ==
  IF retryAfterBranch(err)
  THEN LET retryAfterMs == err.retryAfter.v * 1000
       IN  {Min(retryAfterMs, config.maxRetryAfterDelay)}
  ELSE LET exponentialBackoff == Pow(2, att - 1) * config.initialDelay
           cappedBackoff == Min(exponentialBackoff, config.maxDelay)
       IN  FloorRandomTimes(cappedBackoff)

\* `await this.sleep(retryDelay)` resumes once the timer has fired
sleepNotAwaited(r) == timer[r] \in {"pending", "fired"}

sleepElapsed(r) == timer[r] = "fired"

\* the catch block of execute, up to the start of the sleep
catchBlock(r, err) ==
  LET att == attempt[r] + 1 IN
  /\ attempt' = [attempt EXCEPT ![r] = att]
  /\ error' = [error EXCEPT ![r] = err]
  /\ inFlight' = [inFlight EXCEPT ![r] = @ - 1]
  /\ IF ~shouldRetry(err, att)
     THEN /\ pc' = [pc EXCEPT ![r] = "rejected"]
          /\ rejection' = [rejection EXCEPT ![r] = err]
          /\ UNCHANGED <<retryDelay, timer, sleeps>>
     ELSE /\ \E d \in calculateDelay(err, delay[r], att) :
               retryDelay' = [retryDelay EXCEPT ![r] = d]
          /\ timer' = [timer EXCEPT ![r] = "pending"]
          /\ sleeps' = [sleeps EXCEPT ![r] = @ + 1]
          /\ pc' = [pc EXCEPT ![r] = "sleep"]
          /\ UNCHANGED rejection

\* `await operation()` is reached: the operation is invoked for the (n+1)-th
\* time.  The operation of a client call starts with makeRequest, which arms
\* the deadline and issues fetch; the operation of stream issues fetch with
\* no deadline
invoke(r, k, n) ==
  /\ pc' = [pc EXCEPT ![r] = "operation"]
  /\ calls' = [calls EXCEPT ![r] = n + 1]
  /\ inFlight' = [inFlight EXCEPT ![r] = @ + 1]
  /\ IF k = "mock"
     THEN UNCHANGED <<stage, transportCalls, deadline>>
     ELSE /\ stage' = [stage EXCEPT ![r] = "fetch"]
          /\ transportCalls' = transportCalls + 1
          /\ deadline' = IF k = "stream" THEN deadline
                          ELSE [deadline EXCEPT ![r] = "pending"]

\* setTimeout(resolve, ms) fires
TimerFires(r) ==
  /\ timer[r] = "pending"
  /\ timer' = [timer EXCEPT ![r] = "fired"]
  /\ UNCHANGED <<libVars, built, tokenVars, streamVars, config, kind, pc, stage, attempt, delay, retryDelay,
                 error, thrown, rejection, result, calls, inFlight, sleeps,
                 clientVars>>

(***************************************************************************)
(* SpecRetry: execute() with an operation that settles arbitrarily.        *)
(***************************************************************************)
InitialDelays == {1, 2}

MaxDelays == {3}

BackoffFactors == {1, 2, 3}

MaxRetryAfterDelays == {2000}

RetryAfters == {Undefined, NaN, Num(0), Num(1), Num(3)}

Configs ==
  [maxAttempts : 0..MaxAttemptsBound, initialDelay : InitialDelays,
   maxDelay : MaxDelays, backoffFactor : BackoffFactors,
   respectRetryAfter : BOOLEAN, maxRetryAfterDelay : MaxRetryAfterDelays]

\* what the operation handed to execute can throw
ThrownValues ==
  {NetworkError(<<"Connection", "failed">>, <<>>),
   ClientError(<<"Bad", "request">>, 400, <<>>),
   ServerError(<<"Internal", "error">>, 500, <<>>),
   JsError("TypeError", <<"fetch", "failed">>),
   JsError("TypeError", <<"x", "is", "not", "a", "function">>),
   JsError("Error", <<"Some", "other", "error">>),
   JsError("string", <<"oops">>)}
  \cup {RateLimitError(<<"Rate", "limited">>, ra, <<>>) : ra \in RetryAfters}

NoUsage ==
  [input_tokens |-> Undefined, output_tokens |-> Undefined,
   cache_creation_input_tokens |-> Undefined,
   cache_read_input_tokens |-> Undefined]

\* a Response: `parses` tells whether response.json() succeeds, `message` is
\* error.message of the parsed body (<<>>: none), `usage` the usage member of
\* the parsed body (`hasUsage` false: none), `retryAfter` the retry-after
\* header (<<>>: none)
Response(status, retryAfter, parses, message, hasUsage, u) ==
  [status |-> status, ok |-> (status >= 200 /\ status <= 299),
   retryAfter |-> retryAfter, parses |-> parses, message |-> message,
   hasUsage |-> hasUsage, usage |-> u]

NoResponse == Response(0, <<>>, FALSE, <<>>, FALSE, NoUsage)

EmptyUsage ==
  [totalInputTokens |-> 0, totalOutputTokens |-> 0,
   totalCacheCreationTokens |-> 0, totalCacheReadTokens |-> 0,
   requestCount |-> 0, averageInputTokens |-> <<0, 1>>,
   averageOutputTokens |-> <<0, 1>>, estimatedCost |-> 0]

\* a value a call resolves with: what it is and, for a ClaudeResponse, its
\* usage member
Returned(type, u) == [type |-> type, usage |-> u]

NoResult == Returned("none", NoUsage)

InitRuns ==
  /\ kind = [r \in Runs |-> "none"]
  /\ pc = [r \in Runs |-> "idle"]
  /\ stage = [r \in Runs |-> "none"]
  /\ attempt = [r \in Runs |-> 0]
  /\ delay = [r \in Runs |-> 0]
  /\ retryDelay = [r \in Runs |-> 0]
  /\ timer = [r \in Runs |-> "none"]
  /\ error = [r \in Runs |-> NoError]
  /\ thrown = [r \in Runs |-> NoError]
  /\ rejection = [r \in Runs |-> NoError]
  /\ result = [r \in Runs |-> NoResult]
  /\ calls = [r \in Runs |-> 0]
  /\ inFlight = [r \in Runs |-> 0]
  /\ sleeps = [r \in Runs |-> 0]

InitClientIdle ==
  /\ usage = EmptyUsage
  /\ maxSessionTokens = Num(100000)
  /\ transportCalls = 0
  /\ deadline = [r \in Runs |-> "none"]
  /\ response = [r \in Runs |-> NoResponse]
  /\ emitted = [count |-> 0, data |-> NoUsage, observed |-> EmptyUsage]
  /\ started = 0

InitTokensIdle ==
  /\ processEnv = <<>>
  /\ records = <<>>
  /\ lastOp = "none"

\* a call: the function called, its argument, and what it returned or threw
Call(fn, arg, ret) == [fn |-> fn, arg |-> arg, ret |-> ret]

NoCall == Call("none", NoError, NoError)

\* the defaults of the constructor of ClaudeClient
DefaultClientConfig ==
  [model |-> "claude-sonnet-4-20250514", maxTokens |-> 16384, temperature |-> Num(1)]

InitHistoryIdle ==
  /\ conversations = <<>>
  /\ added = <<>>
  /\ now = 0

\* the streamMessage calls of SpecSequences
Sequences == {1, 2}

\* a sequence not yet asked for: where its generator stands, the reader,
\* the locals `buffer` and the lines of the `for` loop, the elements yielded,
\* the text read, the text the transport still holds for it, the requests
\* issued for it and the next() calls made after its end
NoSequence ==
  [gpc |-> "none", reader |-> "none", buffer |-> <<>>, lines |-> <<>>,
   yielded |-> <<>>, received |-> <<>>, wire |-> <<>>, requests |-> 0,
   drained |-> 0]

InitSequencesIdle == seqs = [i \in Sequences |-> NoSequence]

InitLibIdle ==
  /\ call = NoCall
  /\ clientConfig = DefaultClientConfig
  /\ AI_PROVIDER = <<>>
  /\ InitHistoryIdle
  /\ InitSequencesIdle

InitStreamIdle ==
  /\ gpc = "none"
  /\ options = {}
  /\ reader = "none"
  /\ buffer = <<>>
  /\ lines = <<>>
  /\ messageId = ""
  /\ yielded = <<>>
  /\ callbackLog = <<>>
  /\ failure = NoError
  /\ exit = "none"
  /\ received = <<>>
  /\ netbuf = <<>>
  /\ sending = <<>>
  /\ linesSent = 0
  /\ closed = FALSE

InitRetry ==
  /\ built = NoError
  /\ config \in Configs
  /\ InitRuns
  /\ InitClientIdle
  /\ InitTokensIdle
  /\ InitStreamIdle
  /\ InitLibIdle

\* execute(operation) is called: the locals are set and the operation invoked
Execute(r) ==
  /\ pc[r] = "idle"
  /\ r = 1
  /\ kind' = [kind EXCEPT ![r] = "mock"]
  /\ attempt' = [attempt EXCEPT ![r] = 0]
  /\ delay' = [delay EXCEPT ![r] = config.initialDelay]
  /\ invoke(r, "mock", calls[r])
  /\ UNCHANGED <<libVars, built, tokenVars, streamVars, config, retryDelay, timer, error, thrown, rejection,
                 result, sleeps, usage, maxSessionTokens, response, emitted,
                 started>>

\* the awaited operation resolves: execute returns its value
OperationResolves(r) ==
  /\ pc[r] = "operation"
  /\ kind[r] = "mock"
  /\ pc' = [pc EXCEPT ![r] = "resolved"]
  /\ result' = [result EXCEPT ![r] = Returned("success", NoUsage)]
  /\ inFlight' = [inFlight EXCEPT ![r] = @ - 1]
  /\ UNCHANGED <<libVars, built, tokenVars, streamVars, config, kind, stage, attempt, delay, retryDelay, timer,
                 error, thrown, rejection, calls, sleeps, clientVars>>

\* the awaited operation rejects: the catch block runs
OperationRejects(r) ==
  /\ pc[r] = "operation"
  /\ kind[r] = "mock"
  /\ \E e \in ThrownValues :
        /\ thrown' = [thrown EXCEPT ![r] = WithId(e, calls[r])]
        /\ catchBlock(r, WithId(e, calls[r]))
  /\ UNCHANGED <<libVars, built, tokenVars, streamVars, config, kind, stage, delay, result, calls, clientVars>>

\* the sleep is over: the backoff base is updated, the catch block is left
\* (its `error` and `retryDelay` go out of scope) and the loop invokes the
\* operation again
SleepResumes(r) ==
  /\ pc[r] = "sleep"
  /\ sleepElapsed(r)
  /\ delay' = [delay EXCEPT ![r] = Min(delay[r] * config.backoffFactor, config.maxDelay)]
  /\ error' = [error EXCEPT ![r] = NoError]
  /\ thrown' = [thrown EXCEPT ![r] = NoError]
  /\ retryDelay' = [retryDelay EXCEPT ![r] = 0]
  /\ timer' = [timer EXCEPT ![r] = "none"]
  /\ invoke(r, kind[r], calls[r])
  /\ UNCHANGED <<libVars, built, tokenVars, streamVars, config, kind, attempt, rejection, result, sleeps,
                 usage, maxSessionTokens, response, emitted, started>>

NextRetry ==
  \E r \in Runs :
    \/ Execute(r)
    \/ OperationResolves(r)
    \/ OperationRejects(r)
    \/ TimerFires(r)
    \/ SleepResumes(r)

SpecRetry == InitRetry /\ [][NextRetry]_vars

(***************************************************************************)
(* SpecErr: the constructors of the taxonomy applied to arbitrary          *)
(* arguments.                                                              *)
(***************************************************************************)
Messages == {<<"Connection", "failed">>, <<"fetch", "failed">>, <<>>}

Contexts == {<<>>, <<"errorData">>}

StatusCodes == {200, 400, 404, 429, 500, 503}

InitErr ==
  /\ built = NoError
  /\ config \in {c \in Configs : c.maxAttempts = 1 /\ c.initialDelay = 1
                                 /\ c.backoffFactor = 2 /\ c.respectRetryAfter}
  /\ InitRuns
  /\ InitClientIdle
  /\ InitTokensIdle
  /\ InitStreamIdle
  /\ InitLibIdle

NewNetworkError ==
  /\ \E m \in Messages, c \in Contexts : built' = NetworkError(m, c)
  /\ UNCHANGED <<libVars, config, runVars, clientVars, tokenVars, streamVars>>

NewClientError ==
  /\ \E m \in Messages, s \in StatusCodes, c \in Contexts : built' = ClientError(m, s, c)
  /\ UNCHANGED <<libVars, config, runVars, clientVars, tokenVars, streamVars>>

NewServerError ==
  /\ \E m \in Messages, s \in StatusCodes, c \in Contexts : built' = ServerError(m, s, c)
  /\ UNCHANGED <<libVars, config, runVars, clientVars, tokenVars, streamVars>>

NewRateLimitError ==
  /\ \E m \in Messages, ra \in RetryAfters, c \in Contexts :
        built' = RateLimitError(m, ra, c)
  /\ UNCHANGED <<libVars, config, runVars, clientVars, tokenVars, streamVars>>

NextErr ==
  \/ NewNetworkError
  \/ NewClientError
  \/ NewServerError
  \/ NewRateLimitError

SpecErr == InitErr /\ [][NextErr]_vars

(***************************************************************************)
(* parseInt(string, 10): a string is a sequence of characters; leading     *)
(* blanks and a sign are skipped, the longest run of digits is read, and   *)
(* the result is NaN when there is none.                                   *)
(***************************************************************************)
DigitChars == <<"0", "1", "2", "3", "4", "5", "6", "7", "8", "9">>

IsDigit(c) == \E d \in 1..Len(DigitChars) : DigitChars[d] = c

DigitValue(c) == (CHOOSE d \in 1..Len(DigitChars) : DigitChars[d] = c) - 1

RECURSIVE DigitsValue(_, _)
DigitsValue(str, acc) ==
  IF str = <<>> \/ ~IsDigit(Head(str)) THEN acc
  ELSE DigitsValue(Tail(str), acc * 10 + DigitValue(Head(str)))

RECURSIVE TrimStart(_)
TrimStart(str) ==
  IF str # <<>> /\ Head(str) = " " THEN TrimStart(Tail(str)) ELSE str

parseInt(str) ==
  LET t == TrimStart(str)
      negative == t # <<>> /\ Head(t) = "-"
      digits == IF t # <<>> /\ Head(t) \in {"-", "+"} THEN Tail(t) ELSE t
  IN  IF digits = <<>> \/ ~IsDigit(Head(digits)) THEN NaN
      ELSE IF negative THEN Num(0 - DigitsValue(digits, 0))
      ELSE Num(DigitsValue(digits, 0))

(***************************************************************************)
(* ErrorClassifier (src/utils/retry-handler.ts, second half).              *)
(***************************************************************************)
\* the header is not read
retryAfterOfNoHeader(header) == Undefined

\* `retryAfter ? parseInt(retryAfter, 10) : undefined`
retryAfterOf(header) == IF header # <<>> THEN parseInt(header) ELSE Undefined

\* the catch clause gives a 429 the message of the other statuses
classifyHttpErrorGenericOnParseFailure(resp) ==
  LET statusCode == resp.status IN
  IF resp.parses
  THEN LET message == IF resp.message # <<>> THEN resp.message
                      ELSE <<"HTTP error", ToString(statusCode)>>
       IN  IF statusCode = 429
           THEN RateLimitError(message, retryAfterOf(resp.retryAfter), <<"errorData">>)
           ELSE IF statusCode >= 400 /\ statusCode < 500
           THEN ClientError(message, statusCode, <<"errorData">>)
           ELSE ServerError(message, statusCode, <<"errorData">>)
  ELSE IF statusCode = 429
       THEN RateLimitError(<<"HTTP error", ToString(statusCode)>>,
                           retryAfterOf(resp.retryAfter), <<>>)
       ELSE IF statusCode >= 400 /\ statusCode < 500
       THEN ClientError(<<"HTTP error", ToString(statusCode)>>, statusCode, <<>>)
       ELSE ServerError(<<"HTTP error", ToString(statusCode)>>, statusCode, <<>>)

\* the catch clause tells 429 from the rest only
classifyHttpErrorServerOnParseFailure(resp) ==
  LET statusCode == resp.status IN
  IF resp.parses
  THEN LET message == IF resp.message # <<>> THEN resp.message
                      ELSE <<"HTTP error", ToString(statusCode)>>
       IN  IF statusCode = 429
           THEN RateLimitError(message, retryAfterOf(resp.retryAfter), <<"errorData">>)
           ELSE IF statusCode >= 400 /\ statusCode < 500
           THEN ClientError(message, statusCode, <<"errorData">>)
           ELSE ServerError(message, statusCode, <<"errorData">>)
  ELSE IF statusCode = 429
       THEN RateLimitError(<<"Rate limit exceeded", "(", ToString(statusCode), ")">>,
                           retryAfterOf(resp.retryAfter), <<>>)
       ELSE ServerError(<<"HTTP error", ToString(statusCode)>>, statusCode, <<>>)

\* a body that parses to a value without members (null) makes the try block
\* throw and takes the catch clause like a body that does not parse
classifyHttpError(resp) ==
  LET statusCode == resp.status IN
  IF resp.parses
  THEN LET message == IF resp.message # <<>> THEN resp.message
                      ELSE <<"HTTP error", ToString(statusCode)>>
       IN  IF statusCode = 429
           THEN RateLimitError(message, retryAfterOf(resp.retryAfter), <<"errorData">>)
           ELSE IF statusCode >= 400 /\ statusCode < 500
           THEN ClientError(message, statusCode, <<"errorData">>)
           ELSE ServerError(message, statusCode, <<"errorData">>)
  ELSE IF statusCode = 429
       THEN RateLimitError(<<"Rate limit exceeded", "(", ToString(statusCode), ")">>,
                           retryAfterOf(resp.retryAfter), <<>>)
       ELSE IF statusCode >= 400 /\ statusCode < 500
       THEN ClientError(<<"HTTP error", ToString(statusCode)>>, statusCode, <<>>)
       ELSE ServerError(<<"HTTP error", ToString(statusCode)>>, statusCode, <<>>)

\* String(value): a value that is no Error is a string (class "string", its
\* text in `message`), null, undefined or a plain object
String(value) ==
  CASE value.class = "null" -> <<"null">>
    [] value.class = "undefined" -> <<"undefined">>
    [] value.class = "object" -> <<"[object Object]">>
    [] OTHER -> value.message

\* a ClaudeError is rebuilt instead of returned
classifyErrorCopies(err) ==
  IF InstanceOf(err, "ClaudeError") THEN WithId(err, 0)
  ELSE IF InstanceOf(err, "TypeError") /\ Includes(err.message, "fetch")
  THEN NetworkError(<<"Network error occurred during API request">>,
                    <<"originalError">> \o err.message)
  ELSE ServerError(<<"Unexpected error">>, 500, <<"originalError">> \o err.message)

classifyError(err) ==
  IF InstanceOf(err, "ClaudeError") THEN err
  ELSE IF InstanceOf(err, "TypeError") /\ Includes(err.message, "fetch")
  THEN NetworkError(<<"Network error occurred during API request">>,
                    <<"originalError">> \o err.message)
  ELSE LET errorMessage == IF InstanceOf(err, "Error") THEN err.message
                           ELSE String(err)
       IN  ServerError(<<"Unexpected error">>, 500, <<"originalError">> \o errorMessage)

(***************************************************************************)
(* TokenManager (src/client/token-manager.ts).  Averages are exact         *)
(* quotients <<numerator, denominator>>; estimatedCost is in units of      *)
(* 10^-8 dollars (3.0, 15.0, 3.75 and 0.3 dollars per million tokens).     *)
(***************************************************************************)
\* x ?? 0
OrZero(x) == IF x.t = "undefined" THEN 0 ELSE x.v

calculateAveragesOfInput(u) ==
  IF u.requestCount > 0
  THEN [u EXCEPT !.averageInputTokens = <<u.totalInputTokens, u.requestCount>>,
                 !.averageOutputTokens = <<u.totalInputTokens, u.requestCount>>]
  ELSE u

calculateAverages(u) ==
  IF u.requestCount > 0
  THEN [u EXCEPT !.averageInputTokens = <<u.totalInputTokens, u.requestCount>>,
                 !.averageOutputTokens = <<u.totalOutputTokens, u.requestCount>>]
  ELSE u

calculateCost(u) ==
  LET inputCost == u.totalInputTokens * 300
      outputCost == u.totalOutputTokens * 1500
      cacheCreationCost == u.totalCacheCreationTokens * 375
      cacheReadCost == u.totalCacheReadTokens * 30
  IN  [u EXCEPT !.estimatedCost = inputCost + outputCost + cacheCreationCost + cacheReadCost]

trackUsage(u, responseUsage) ==
  calculateCost(calculateAverages(
    [u EXCEPT !.totalInputTokens = @ + OrZero(responseUsage.input_tokens),
              !.totalOutputTokens = @ + OrZero(responseUsage.output_tokens),
              !.totalCacheCreationTokens = @ + OrZero(responseUsage.cache_creation_input_tokens),
              !.totalCacheReadTokens = @ + OrZero(responseUsage.cache_read_input_tokens),
              !.requestCount = @ + 1]))

resetKeepsAverages(u) ==
  [totalInputTokens |-> 0, totalOutputTokens |-> 0,
   totalCacheCreationTokens |-> 0, totalCacheReadTokens |-> 0,
   requestCount |-> 0, averageInputTokens |-> u.averageInputTokens,
   averageOutputTokens |-> u.averageOutputTokens, estimatedCost |-> 0]

\* reset(): this.usage is replaced by a new object
reset(u) ==
  [totalInputTokens |-> 0, totalOutputTokens |-> 0,
   totalCacheCreationTokens |-> 0, totalCacheReadTokens |-> 0,
   requestCount |-> 0, averageInputTokens |-> <<0, 1>>,
   averageOutputTokens |-> <<0, 1>>, estimatedCost |-> 0]

getTotalSessionTokens == usage.totalInputTokens + usage.totalOutputTokens

\* a comparison with NaN is false
isSessionLimitReachedStrict ==
  maxSessionTokens.t = "number" /\ getTotalSessionTokens > maxSessionTokens.v

isSessionLimitReached ==
  maxSessionTokens.t = "number" /\ getTotalSessionTokens >= maxSessionTokens.v

\* the TokenManager constructor: MAX_SESSION_TOKENS of the environment
\* (<<>>: not set) or the default
DefaultMaxSessionTokens == 100000

maxSessionTokensOfAlwaysParsed(env) == parseInt(env)

maxSessionTokensOf(env) ==
  IF env # <<>> THEN parseInt(env) ELSE Num(DefaultMaxSessionTokens)

NumberToString(x) == IF x.t = "number" THEN ToString(x.v) ELSE "NaN"

(***************************************************************************)
(* ClaudeClient (src/client/claude-client.ts).                             *)
(***************************************************************************)
ClientMaxDelay == 30000

ClientBackoffFactor == 2

ClientMaxRetryAfterDelay == 60000

\* the RetryConfig the constructor derives from maxRetries and retryDelay
retryConfigOf(maxRetries, retryDelayMs) ==
  [maxAttempts |-> maxRetries, initialDelay |-> retryDelayMs,
   maxDelay |-> ClientMaxDelay, backoffFactor |-> ClientBackoffFactor,
   respectRetryAfter |-> TRUE, maxRetryAfterDelay |-> ClientMaxRetryAfterDelay]

\* the Error thrown by the budget check of sendMessage and streamMessage
sessionLimitError ==
  JsError("Error",
    <<"Session token limit of", NumberToString(maxSessionTokens),
      "has been reached.", "Current usage:", ToString(getTotalSessionTokens),
      "tokens.", "Reset token usage with resetTokenUsage() to continue.">>)

\* the operation of sendMessage after `await response.json()`, the data
\* standing for its usage member: the usage the TokenManager holds afterwards,
\* the payload of the 'response' event, the usage a listener reads while the
\* event is dispatched (emit runs the listeners synchronously), the value
\* returned
afterJsonEmitsFirst(u, data) ==
  [usage |-> trackUsage(u, data), event |-> data, observed |-> u,
   returned |-> data]

\* the usage is tracked twice
afterJsonTracksTwice(u, data) ==
  LET tracked == trackUsage(trackUsage(u, data), data)
  IN  [usage |-> tracked, event |-> data, observed |-> tracked,
       returned |-> data]

\* the usage is tracked on the counters of a new session
afterJsonOverwrites(u, data) ==
  LET tracked == trackUsage(EmptyUsage, data)
  IN  [usage |-> tracked, event |-> data, observed |-> tracked,
       returned |-> data]

afterJson(u, data) ==
  LET tracked == trackUsage(u, data)
  IN  [usage |-> tracked, event |-> data, observed |-> tracked,
       returned |-> data]

\* the catch clause of makeRequest
makeRequestCatchClassifiesAbort(err) == classifyError(err)

makeRequestCatch(err) ==
  IF err.class = "AbortError"
  THEN NetworkError(<<"Request timeout">>, <<>>)
  ELSE classifyError(err)

(***************************************************************************)
(* SpecClient: calls on one ClaudeClient over a transport that answers     *)
(* arbitrarily.  A run is a call in progress; a settled run can be taken   *)
(* by the next call.                                                       *)
(***************************************************************************)
ClientMaxRetries == {2}

ClientRetryDelays == {1}

\* MAX_SESSION_TOKENS of the environment: not set, "3"
EnvMaxSessionTokens == {<<>>, <<"3">>}

UsageRecords ==
  {[input_tokens |-> Num(1), output_tokens |-> Num(1),
    cache_creation_input_tokens |-> Undefined, cache_read_input_tokens |-> Undefined],
   [input_tokens |-> Num(60000), output_tokens |-> Num(40000),
    cache_creation_input_tokens |-> Num(1), cache_read_input_tokens |-> Num(1)]}

\* 2xx responses: a body with usage (ClaudeResponse), a body that is not JSON
OkResponses ==
  {Response(200, <<>>, TRUE, <<>>, TRUE, u) : u \in UsageRecords}
  \cup {Response(200, <<>>, FALSE, <<>>, FALSE, NoUsage)}

ErrorResponses ==
  {Response(400, <<>>, TRUE, <<"Bad", "request">>, FALSE, NoUsage),
   Response(500, <<>>, FALSE, <<>>, FALSE, NoUsage),
   Response(429, <<"1">>, TRUE, <<"Rate", "limited">>, FALSE, NoUsage)}

\* what fetch rejects with when the connection fails
FetchFailures ==
  {JsError("TypeError", <<"fetch", "failed">>),
   JsError("Error", <<"socket", "hang", "up">>)}

\* what fetch rejects with when its signal is aborted
AbortError == JsError("AbortError", <<"This operation was aborted">>)

InitClient ==
  /\ built = NoError
  /\ config \in {retryConfigOf(m, d) : m \in ClientMaxRetries, d \in ClientRetryDelays}
  /\ InitRuns
  /\ usage = EmptyUsage
  /\ processEnv \in EnvMaxSessionTokens
  /\ maxSessionTokens = maxSessionTokensOf(processEnv)
  /\ transportCalls = 0
  /\ deadline = [r \in Runs |-> "none"]
  /\ response = [r \in Runs |-> NoResponse]
  /\ emitted = [count |-> 0, data |-> NoUsage, observed |-> EmptyUsage]
  /\ started = 0
  /\ records = <<>>
  /\ lastOp = "none"
  /\ InitStreamIdle
  /\ InitLibIdle

Settled(r) == pc[r] \in {"idle", "resolved", "rejected"}

\* a call takes the first run that is not in progress: what the previous call
\* left there is dropped
enter(r, k) ==
  /\ Settled(r)
  /\ \A q \in Runs : q < r => ~Settled(q)
  /\ started < MaxCallsTotal
  /\ started' = started + 1
  /\ kind' = [kind EXCEPT ![r] = k]
  /\ error' = [error EXCEPT ![r] = NoError]
  /\ thrown' = [thrown EXCEPT ![r] = NoError]
  /\ retryDelay' = [retryDelay EXCEPT ![r] = 0]
  /\ timer' = [timer EXCEPT ![r] = "none"]
  /\ sleeps' = [sleeps EXCEPT ![r] = 0]
  /\ response' = [response EXCEPT ![r] = NoResponse]

\* the budget check failed: the call rejects before anything else happens
rejectOverBudget(r) ==
  /\ pc' = [pc EXCEPT ![r] = "rejected"]
  /\ rejection' = [rejection EXCEPT ![r] = sessionLimitError]
  /\ result' = [result EXCEPT ![r] = NoResult]
  /\ attempt' = [attempt EXCEPT ![r] = 0]
  /\ delay' = [delay EXCEPT ![r] = 0]
  /\ calls' = [calls EXCEPT ![r] = 0]
  /\ deadline' = [deadline EXCEPT ![r] = "none"]
  /\ UNCHANGED <<stage, inFlight, transportCalls>>

\* retryHandler.execute(...) is entered and the operation invoked
enterExecute(r, k) ==
  /\ rejection' = [rejection EXCEPT ![r] = NoError]
  /\ result' = [result EXCEPT ![r] = NoResult]
  /\ attempt' = [attempt EXCEPT ![r] = 0]
  /\ delay' = [delay EXCEPT ![r] = config.initialDelay]
  /\ invoke(r, k, 0)

\* sendMessage(messages, options)
SendMessage(r) ==
  /\ enter(r, "sendMessage")
  /\ IF isSessionLimitReached
     THEN rejectOverBudget(r)
     ELSE enterExecute(r, "sendMessage")
  /\ UNCHANGED <<libVars, built, tokenVars, streamVars, config, usage, maxSessionTokens, emitted>>

\* sendMessageAsync(messages, options): `return this.sendMessage(...)`
SendMessageAsync(r) == SendMessage(r)

\* countTokens(request): no budget check
CountTokens(r) ==
  /\ enter(r, "countTokens")
  /\ enterExecute(r, "countTokens")
  /\ UNCHANGED <<libVars, built, tokenVars, streamVars, config, usage, maxSessionTokens, emitted>>

\* streamMessage(messages, options): the budget check, then the sequence of
\* streamingClient.stream is returned, not yet started
StreamMessage(r) ==
  /\ enter(r, "streamMessage")
  /\ IF isSessionLimitReached
     THEN rejectOverBudget(r)
     ELSE /\ pc' = [pc EXCEPT ![r] = "resolved"]
          /\ result' = [result EXCEPT ![r] = Returned("AsyncIterable", NoUsage)]
          /\ rejection' = [rejection EXCEPT ![r] = NoError]
          /\ attempt' = [attempt EXCEPT ![r] = 0]
          /\ delay' = [delay EXCEPT ![r] = 0]
          /\ calls' = [calls EXCEPT ![r] = 0]
          /\ deadline' = [deadline EXCEPT ![r] = "none"]
          /\ UNCHANGED <<stage, inFlight, transportCalls>>
  /\ UNCHANGED <<libVars, built, tokenVars, streamVars, config, usage, maxSessionTokens, emitted>>

\* the operation of a client call throws err: it leaves the operation and
\* execute's catch block runs
operationThrows(r, err) ==
  /\ thrown' = [thrown EXCEPT ![r] = WithId(err, calls[r])]
  /\ stage' = [stage EXCEPT ![r] = "none"]
  /\ catchBlock(r, WithId(err, calls[r]))

\* fetch rejects (no connection): makeRequest clears the deadline and throws
\* the classified error
FetchRejects(r) ==
  /\ pc[r] = "operation" /\ stage[r] = "fetch"
  /\ deadline' = [deadline EXCEPT ![r] = "none"]
  /\ \E e \in FetchFailures : operationThrows(r, makeRequestCatch(e))
  /\ UNCHANGED <<libVars, built, tokenVars, streamVars, config, kind, delay, result, calls, usage,
                 maxSessionTokens, transportCalls, response, emitted, started>>

\* the deadline fires while fetch is pending: the signal aborts fetch, which
\* rejects with an AbortError; clearTimeout of the fired timer does nothing
DeadlineFires(r) ==
  /\ pc[r] = "operation" /\ stage[r] = "fetch"
  /\ deadline[r] = "pending"
  /\ deadline' = [deadline EXCEPT ![r] = "fired"]
  /\ operationThrows(r, makeRequestCatch(AbortError))
  /\ UNCHANGED <<libVars, built, tokenVars, streamVars, config, kind, delay, result, calls, usage,
                 maxSessionTokens, transportCalls, response, emitted, started>>

\* fetch resolves with a non-2xx response: classifyHttpError, throw, and the
\* catch clause of makeRequest rethrows what classifyError returns
FetchRespondsError(r) ==
  /\ pc[r] = "operation" /\ stage[r] = "fetch"
  /\ deadline' = [deadline EXCEPT ![r] = "none"]
  /\ \E resp \in ErrorResponses :
        operationThrows(r, makeRequestCatch(classifyHttpError(resp)))
  /\ UNCHANGED <<libVars, built, tokenVars, streamVars, config, kind, delay, result, calls, usage,
                 maxSessionTokens, transportCalls, response, emitted, started>>

\* fetch resolves with a 2xx response: makeRequest returns it and the
\* operation awaits response.json()
FetchRespondsOk(r) ==
  /\ pc[r] = "operation" /\ stage[r] = "fetch"
  /\ deadline' = [deadline EXCEPT ![r] = "none"]
  /\ \E resp \in OkResponses : response' = [response EXCEPT ![r] = resp]
  /\ stage' = [stage EXCEPT ![r] = "json"]
  /\ UNCHANGED <<libVars, built, tokenVars, streamVars, config, kind, pc, attempt, delay, retryDelay, timer,
                 error, thrown, rejection, result, calls, inFlight, sleeps,
                 usage, maxSessionTokens, transportCalls, emitted, started>>

\* whether the operation of a call of kind k tracks the usage of its data
operationTracksAlways(k) == k \in {"sendMessage", "countTokens"}

operationTracks(k) == k = "sendMessage"

\* response.json() resolves: sendMessage tracks the usage, emits 'response'
\* and returns the data; countTokens returns the data
BodyParsed(r) ==
  /\ pc[r] = "operation" /\ stage[r] = "json"
  /\ response[r].parses
  /\ IF ~operationTracks(kind[r])
     THEN /\ result' = [result EXCEPT ![r] = Returned("TokenCountResponse", NoUsage)]
          /\ UNCHANGED <<usage, emitted, lastOp, records>>
     ELSE LET after == afterJson(usage, response[r].usage) IN
          /\ usage' = after.usage
          /\ lastOp' = "trackUsage"
          /\ records' = Append(records, response[r].usage)
          /\ emitted' = [count |-> emitted.count + 1, data |-> after.event,
                         observed |-> after.observed]
          /\ result' = [result EXCEPT ![r] = Returned("ClaudeResponse", after.returned)]
  /\ pc' = [pc EXCEPT ![r] = "resolved"]
  /\ stage' = [stage EXCEPT ![r] = "none"]
  /\ inFlight' = [inFlight EXCEPT ![r] = @ - 1]
  /\ response' = [response EXCEPT ![r] = NoResponse]
  /\ UNCHANGED <<libVars, built, processEnv, streamVars, config, kind, attempt,
                 delay, retryDelay, timer, error, thrown, rejection, calls,
                 sleeps, maxSessionTokens, transportCalls, deadline, started>>

\* response.json() rejects with a SyntaxError (the body is not JSON): the
\* operation throws outside makeRequest
BodyFails(r) ==
  /\ pc[r] = "operation" /\ stage[r] = "json"
  /\ ~response[r].parses
  /\ response' = [response EXCEPT ![r] = NoResponse]
  /\ operationThrows(r, JsError("SyntaxError", <<"Unexpected token in JSON">>))
  /\ UNCHANGED <<libVars, built, tokenVars, streamVars, config, kind, delay, result, calls, usage,
                 maxSessionTokens, transportCalls, deadline, emitted, started>>

\* the sequence streamMessage returned is consumed until it ends or fails:
\* streamingClient.stream issues its request through the Retry Handler (one
\* fetch per attempt) and decodes the body; it holds no reference to the
\* TokenManager.  SpecStream has the steps of the decoder
ConsumeStream(r) ==
  /\ pc[r] = "resolved"
  /\ result[r].type = "AsyncIterable"
  /\ \E n \in 1..config.maxAttempts : transportCalls' = transportCalls + n
  /\ result' = [result EXCEPT ![r] = Returned("consumed AsyncIterable", NoUsage)]
  /\ UNCHANGED <<libVars, built, tokenVars, streamVars, config, kind, pc, stage, attempt,
                 delay, retryDelay, timer, error, thrown, rejection, calls,
                 inFlight, sleeps, usage, maxSessionTokens, deadline, response,
                 emitted, started>>

\* resetTokenUsage()
ResetTokenUsage ==
  /\ usage' = reset(usage)
  /\ lastOp' = "reset"
  /\ records' = <<>>
  /\ UNCHANGED <<libVars, built, processEnv, streamVars, config, runVars,
                 maxSessionTokens, transportCalls, deadline, response, emitted,
                 started>>

NextClient ==
  \/ \E r \in Runs :
       \/ SendMessage(r)
       \/ SendMessageAsync(r)
       \/ CountTokens(r)
       \/ StreamMessage(r)
       \/ FetchRejects(r)
       \/ DeadlineFires(r)
       \/ FetchRespondsError(r)
       \/ FetchRespondsOk(r)
       \/ BodyParsed(r)
       \/ BodyFails(r)
       \/ ConsumeStream(r)
       \/ TimerFires(r)
       \/ SleepResumes(r)
  \/ ResetTokenUsage

SpecClient == InitClient /\ [][NextClient]_vars

(***************************************************************************)
(* SpecTokens: one TokenManager, constructed under an arbitrary            *)
(* environment, on which trackUsage and reset are called in any order.     *)
(***************************************************************************)
\* trackUsage calls between two resets
MaxTracked == 3

\* MAX_SESSION_TOKENS: not set, "250", "0", "abc"
TokenEnvs == {<<>>, <<"2", "5", "0">>, <<"0">>, <<"a", "b", "c">>}

TokenRecords ==
  {[input_tokens |-> Num(100), output_tokens |-> Num(50),
    cache_creation_input_tokens |-> Undefined, cache_read_input_tokens |-> Undefined],
   [input_tokens |-> Num(50), output_tokens |-> Num(50),
    cache_creation_input_tokens |-> Num(1000), cache_read_input_tokens |-> Num(500)],
   [input_tokens |-> Num(99750), output_tokens |-> Num(0),
    cache_creation_input_tokens |-> Undefined, cache_read_input_tokens |-> Num(7)]}

InitTokens ==
  /\ built = NoError
  /\ config = retryConfigOf(1, 1)
  /\ InitRuns
  /\ usage = EmptyUsage
  /\ processEnv \in TokenEnvs
  /\ maxSessionTokens = maxSessionTokensOf(processEnv)
  /\ transportCalls = 0
  /\ deadline = [r \in Runs |-> "none"]
  /\ response = [r \in Runs |-> NoResponse]
  /\ emitted = [count |-> 0, data |-> NoUsage, observed |-> EmptyUsage]
  /\ started = 0
  /\ records = <<>>
  /\ lastOp = "none"
  /\ InitStreamIdle
  /\ InitLibIdle

\* tokenManager.trackUsage(responseUsage)
TrackUsage ==
  /\ Len(records) < MaxTracked
  /\ \E responseUsage \in TokenRecords :
        /\ usage' = trackUsage(usage, responseUsage)
        /\ records' = Append(records, responseUsage)
  /\ lastOp' = "trackUsage"
  /\ UNCHANGED <<libVars, built, config, runVars, maxSessionTokens, transportCalls,
                 deadline, response, emitted, started, processEnv, streamVars>>

\* tokenManager.reset()
Reset ==
  /\ usage' = reset(usage)
  /\ records' = <<>>
  /\ lastOp' = "reset"
  /\ UNCHANGED <<libVars, built, config, runVars, maxSessionTokens, transportCalls,
                 deadline, response, emitted, started, processEnv, streamVars>>

NextTokens ==
  \/ TrackUsage
  \/ Reset

SpecTokens == InitTokens /\ [][NextTokens]_vars

(***************************************************************************)
(* StreamingClient (src/client/streaming-client.ts).  A text is a sequence *)
(* of pieces, each one or more characters, and a chunk ends between two    *)
(* pieces: 'data: ' is written as one piece or as two, so a chunk can end  *)
(* inside it, and so can a JSON payload.                                   *)
(***************************************************************************)
NL == "\n"

\* 'data: ' in one piece and in two
DataPrefix == <<"data: ">>

DataPrefixCut == <<"da", "ta: ">>

DoneSentinel == <<"[DONE]">>

\* buffer.split('\n'): the segments between the newlines, the last one being
\* what follows the last newline
RECURSIVE split(_, _)
split(text, segment) ==
  IF text = <<>> THEN <<segment>>
  ELSE IF Head(text) = NL THEN <<segment>> \o split(Tail(text), <<>>)
  ELSE split(Tail(text), Append(segment, Head(text)))

\* text.startsWith(prefix)
startsWith(text, prefix) ==
  Len(text) >= Len(prefix) /\ SubSeq(text, 1, Len(prefix)) = prefix

\* line.startsWith('data: ')
startsWithData(line) ==
  startsWith(line, DataPrefix) \/ startsWith(line, DataPrefixCut)

\* line.slice(6), for a line that starts with 'data: '
slice6(line) ==
  IF startsWith(line, DataPrefix)
  THEN SubSeq(line, Len(DataPrefix) + 1, Len(line))
  ELSE SubSeq(line, Len(DataPrefixCut) + 1, Len(line))

DeltaOpen == "{\"type\":\"content_block_delta\",\"delta\":{\"text\":"

Parsed(valid, type, hasText, text, id) ==
  [valid |-> valid, type |-> type, hasText |-> hasText, text |-> text, id |-> id]

\* JSON.parse(data): the payloads that are JSON, anything else throws
JSONParse(data) ==
  CASE data = <<DeltaOpen, "\"A\"}}">> ->
         Parsed(TRUE, "content_block_delta", TRUE, "A", "")
    [] data = <<"{\"type\":\"content_block_delta\",\"delta\":{\"partial_json\":\"\"}}">> ->
         Parsed(TRUE, "content_block_delta", FALSE, "", "")
    [] data = <<"{\"type\":\"message_start\",\"message\":{\"id\":\"m1\"}}">> ->
         Parsed(TRUE, "message_start", FALSE, "", "m1")
    [] data = <<"{\"type\":\"message_stop\"}">> ->
         Parsed(TRUE, "message_stop", FALSE, "", "")
    [] data = <<"{\"type\":\"ping\"}">> ->
         Parsed(TRUE, "ping", FALSE, "", "")
    [] OTHER -> Parsed(FALSE, "", FALSE, "", "")

\* options.onX?.(...): the entry the call leaves in the log, if onX is given
callback(opts, name, arg) ==
  IF name \in opts THEN <<name \o "(" \o arg \o ")">> ELSE <<>>

\* a callback that throws when it is called: the options hold its name and
\* the name followed by " throws"
throws(opts, name) == name \in opts /\ (name \o " throws") \in opts

\* what one pass of the `for` body does with a line: whether the generator
\* returns, the callbacks it invokes, the element it yields (<<>>: none) and
\* the messageId it leaves
Outcome(returns, invoked, yields, id) ==
  [returns |-> returns, invoked |-> invoked, yields |-> yields, messageId |-> id]

forBodyIgnoresDone(line, opts, id) ==
  IF ~startsWithData(line) THEN Outcome(FALSE, <<>>, <<>>, id)
  ELSE LET data == slice6(line)
           parsed == JSONParse(data)
       IN  IF ~parsed.valid THEN Outcome(FALSE, <<>>, <<>>, id)
           ELSE IF parsed.type = "message_start"
             THEN Outcome(FALSE, callback(opts, "onStart", parsed.id), <<>>, parsed.id)
           ELSE IF parsed.type = "content_block_delta"
             THEN Outcome(FALSE, callback(opts, "onContent", parsed.text),
                          <<parsed.text>>, id)
           ELSE IF parsed.type = "message_stop"
             THEN Outcome(FALSE, callback(opts, "onComplete", parsed.type), <<>>, id)
           ELSE Outcome(FALSE, <<>>, <<>>, id)

forBodyYieldsOnStop(line, opts, id) ==
  IF ~startsWithData(line) THEN Outcome(FALSE, <<>>, <<>>, id)
  ELSE LET data == slice6(line)
           parsed == JSONParse(data)
       IN  IF data = DoneSentinel THEN Outcome(TRUE, <<>>, <<>>, id)
           ELSE IF ~parsed.valid THEN Outcome(FALSE, <<>>, <<>>, id)
           ELSE IF parsed.type = "message_start"
             THEN Outcome(FALSE, callback(opts, "onStart", parsed.id), <<>>, parsed.id)
           ELSE IF parsed.type = "content_block_delta"
             THEN Outcome(FALSE, callback(opts, "onContent", parsed.text),
                          <<parsed.text>>, id)
           ELSE IF parsed.type = "message_stop"
             THEN Outcome(FALSE, callback(opts, "onComplete", parsed.type),
                          <<parsed.text>>, id)
           ELSE Outcome(FALSE, <<>>, <<>>, id)

forBodyParseErrorEscapes(line, opts, id) ==
  IF ~startsWithData(line) THEN Outcome(FALSE, <<>>, <<>>, id)
  ELSE LET data == slice6(line)
           parsed == JSONParse(data)
       IN  IF data = DoneSentinel THEN Outcome(TRUE, <<>>, <<>>, id)
           ELSE IF ~parsed.valid THEN Outcome(TRUE, <<>>, <<>>, id)
           ELSE IF parsed.type = "message_start"
             THEN Outcome(FALSE, callback(opts, "onStart", parsed.id), <<>>, parsed.id)
           ELSE IF parsed.type = "content_block_delta"
             THEN Outcome(FALSE, callback(opts, "onContent", parsed.text),
                          <<parsed.text>>, id)
           ELSE IF parsed.type = "message_stop"
             THEN Outcome(FALSE, callback(opts, "onComplete", parsed.type), <<>>, id)
           ELSE Outcome(FALSE, <<>>, <<>>, id)

\* the callback is called and throws instead of returning, and the delta is
\* yielded all the same
forBodyYieldsAfterThrow(line, opts, id) ==
  IF ~startsWithData(line) THEN Outcome(FALSE, <<>>, <<>>, id)
  ELSE LET data == slice6(line)
           parsed == JSONParse(data)
       IN  IF data = DoneSentinel THEN Outcome(TRUE, <<>>, <<>>, id)
           ELSE IF ~parsed.valid THEN Outcome(FALSE, <<>>, <<>>, id)
           ELSE IF parsed.type = "message_start"
             THEN Outcome(FALSE, callback(opts, "onStart", parsed.id), <<>>, parsed.id)
           ELSE IF parsed.type = "content_block_delta"
             THEN Outcome(FALSE, callback(opts, "onContent", parsed.text),
                          <<parsed.text>>, id)
           ELSE IF parsed.type = "message_stop"
             THEN Outcome(FALSE, callback(opts, "onComplete", parsed.type), <<>>, id)
           ELSE Outcome(FALSE, <<>>, <<>>, id)

\* the pass of the `for` body over a line.  A callback that throws does so
\* inside the inner try statement, whose catch clause is empty: the
\* statements after the call are skipped (the `yield` after onContent; none
\* after onStart, which is called after messageId is assigned, or after
\* onComplete) and the loop goes on
forBody(line, opts, id) ==
  IF ~startsWithData(line) THEN Outcome(FALSE, <<>>, <<>>, id)
  ELSE LET data == slice6(line)
           parsed == JSONParse(data)
       IN  IF data = DoneSentinel THEN Outcome(TRUE, <<>>, <<>>, id)
           ELSE IF ~parsed.valid THEN Outcome(FALSE, <<>>, <<>>, id)
           ELSE IF parsed.type = "message_start"
             THEN Outcome(FALSE, callback(opts, "onStart", parsed.id), <<>>, parsed.id)
           ELSE IF parsed.type = "content_block_delta"
             THEN Outcome(FALSE, callback(opts, "onContent", parsed.text),
                          IF throws(opts, "onContent") THEN <<>> ELSE <<parsed.text>>,
                          id)
           ELSE IF parsed.type = "message_stop"
             THEN Outcome(FALSE, callback(opts, "onComplete", parsed.type), <<>>, id)
           ELSE Outcome(FALSE, <<>>, <<>>, id)

\* error instanceof Error ? error : new Error(String(error))
typedErrorOf(err) ==
  IF InstanceOf(err, "Error") THEN err ELSE JsError("Error", String(err))

\* the state of the reader once the generator has left the try statement on
\* the given path: the finally clause calls reader.releaseLock()
finallyLeaksOnError(path) == IF path = "readError" THEN "locked" ELSE "released"

finally(path) == "released"

(***************************************************************************)
(* SpecStream: one call of StreamingClient.stream, consumed over a         *)
(* transport that answers the request arbitrarily and delivers the body    *)
(* of a 2xx response in arbitrary chunks.  The call uses run 1.            *)
(***************************************************************************)
\* lines a body has at most
MaxLines == 3

\* the callbacks given: all of them, none
StreamOptions == {{"onStart", "onContent", "onComplete", "onError"}, {}}

\* the lines a server writes
WireLines ==
  {DataPrefixCut \o <<DeltaOpen, "\"A\"}}">>,
   DataPrefix \o <<"{\"type\":\"content_block_delta\",\"delta\":{\"partial_json\":\"\"}}">>,
   DataPrefix \o <<"{\"type\":\"message_start\",\"message\":{\"id\":\"m1\"}}">>,
   DataPrefix \o <<"{\"type\":\"message_stop\"}">>,
   DataPrefix \o <<"{\"type\":\"ping\"}">>,
   DataPrefix \o DoneSentinel,
   DataPrefix \o <<DeltaOpen>>,
   <<"event: content_block_delta">>}

\* what reader.read() rejects with: an Error of the transport, a value that
\* is no Error
ReadFailures ==
  {JsError("TypeError", <<"terminated">>), JsError("string", <<"reset">>)}

\* the status codes of the responses that are not ok
StreamErrorStatuses == {400, 429, 500}

InitStream ==
  /\ built = NoError
  /\ config \in {retryConfigOf(m, d) : m \in ClientMaxRetries, d \in ClientRetryDelays}
  /\ InitRuns
  /\ InitClientIdle
  /\ InitTokensIdle
  /\ InitStreamIdle
  /\ InitLibIdle

\* stream(request, options): the generator object is created, its body not
\* yet entered
Stream ==
  /\ gpc = "none"
  /\ gpc' = "suspendedStart"
  /\ options' \in StreamOptions
  /\ UNCHANGED <<libVars, built, config, runVars, clientVars, tokenVars, reader, buffer,
                 lines, messageId, yielded, callbackLog, failure, exit,
                 received, netbuf, sending, linesSent, closed>>

\* the consumer's first next(): the body runs up to the fetch of the first
\* attempt of retryHandler.execute
IteratorStart ==
  /\ gpc = "suspendedStart"
  /\ gpc' = "connect"
  /\ kind' = [kind EXCEPT ![1] = "stream"]
  /\ enterExecute(1, "stream")
  /\ UNCHANGED <<libVars, built, config, retryDelay, timer, error, thrown, sleeps, usage,
                 maxSessionTokens, response, emitted, started, tokenVars,
                 options, reader, buffer, lines, messageId, yielded,
                 callbackLog, failure, exit, received, netbuf, sending,
                 linesSent, closed>>

\* stream's call of retryHandler.execute has rejected with pc'[1]: the
\* generator throws before the try statement
connectOutcome ==
  IF pc'[1] = "rejected"
  THEN /\ gpc' = "failed"
       /\ failure' = rejection'[1]
       /\ exit' = "connect"
  ELSE UNCHANGED <<gpc, failure, exit>>

\* fetch rejects: the operation throws what fetch threw
StreamFetchRejects ==
  /\ gpc = "connect" /\ pc[1] = "operation"
  /\ \E e \in FetchFailures : operationThrows(1, e)
  /\ connectOutcome
  /\ UNCHANGED <<libVars, built, config, kind, delay, result, calls, clientVars,
                 tokenVars, options, reader, buffer, lines, messageId, yielded,
                 callbackLog, received, netbuf, sending, linesSent, closed>>

\* fetch resolves with a response that is not ok: the operation throws
\* new Error(`HTTP ${response.status}`)
StreamFetchRespondsError ==
  /\ gpc = "connect" /\ pc[1] = "operation"
  /\ \E status \in StreamErrorStatuses :
        operationThrows(1, JsError("Error", <<"HTTP", ToString(status)>>))
  /\ connectOutcome
  /\ UNCHANGED <<libVars, built, config, kind, delay, result, calls, clientVars,
                 tokenVars, options, reader, buffer, lines, messageId, yielded,
                 callbackLog, received, netbuf, sending, linesSent, closed>>

\* fetch resolves with an ok response: execute returns it; without a body
\* the generator throws, with one it takes the reader and issues a read
StreamFetchRespondsOk ==
  /\ gpc = "connect" /\ pc[1] = "operation"
  /\ pc' = [pc EXCEPT ![1] = "resolved"]
  /\ stage' = [stage EXCEPT ![1] = "none"]
  /\ inFlight' = [inFlight EXCEPT ![1] = @ - 1]
  /\ result' = [result EXCEPT ![1] = Returned("Response", NoUsage)]
  /\ \E hasBody \in BOOLEAN :
        IF ~hasBody
        THEN /\ gpc' = "failed"
             /\ failure' = JsError("Error", <<"No response body">>)
             /\ exit' = "noBody"
             /\ UNCHANGED reader
        ELSE /\ gpc' = "read"
             /\ reader' = "locked"
             /\ UNCHANGED <<failure, exit>>
  /\ UNCHANGED <<libVars, built, config, kind, attempt, delay, retryDelay, timer, error,
                 thrown, rejection, calls, sleeps, clientVars, tokenVars,
                 options, buffer, lines, messageId, yielded, callbackLog,
                 received, netbuf, sending, linesSent, closed>>

\* the server writes the next piece of the body, beginning a new line when
\* the last one is complete.  A piece that arrives while the generator is
\* not waiting in read() is delivered by the next read all the same
ServerSends ==
  /\ gpc = "read" /\ ~closed
  /\ IF sending = <<>>
     THEN /\ linesSent < MaxLines
          /\ linesSent' = linesSent + 1
          /\ \E line \in WireLines :
                /\ netbuf' = Append(netbuf, Head(Append(line, NL)))
                /\ sending' = Tail(Append(line, NL))
     ELSE /\ netbuf' = Append(netbuf, Head(sending))
          /\ sending' = Tail(sending)
          /\ UNCHANGED linesSent
  /\ UNCHANGED <<libVars, built, config, runVars, clientVars, tokenVars, gpc, options,
                 reader, buffer, lines, messageId, yielded, callbackLog,
                 failure, exit, received, closed>>

\* the server closes the body, at a line end or inside a line; the generator
\* sees the close once it has read what arrived before
ServerCloses ==
  /\ gpc = "read" /\ ~closed /\ netbuf = <<>>
  /\ closed' = TRUE
  /\ sending' = <<>>
  /\ UNCHANGED <<libVars, built, config, runVars, clientVars, tokenVars, gpc, options,
                 reader, buffer, lines, messageId, yielded, callbackLog,
                 failure, exit, received, netbuf, linesSent>>

\* the chunk is split by itself: what the buffer held is dropped
ReadResolvesDropsPartial ==
  /\ gpc = "read" /\ netbuf # <<>>
  /\ LET segments == split(netbuf, <<>>)
         complete == SubSeq(segments, 1, Len(segments) - 1)
     IN  /\ buffer' = segments[Len(segments)]
         /\ lines' = complete
         /\ gpc' = IF complete = <<>> THEN "read" ELSE "lines"
  /\ received' = received \o netbuf
  /\ netbuf' = <<>>
  /\ UNCHANGED <<libVars, built, config, runVars, clientVars, tokenVars, options, reader,
                 messageId, yielded, callbackLog, failure, exit, sending,
                 linesSent, closed>>

\* reader.read() resolves with a chunk: it is appended to the buffer, the
\* buffer is split, the last segment stays in the buffer and the `for` loop
\* starts on the others
ReadResolves ==
  /\ gpc = "read" /\ netbuf # <<>>
  /\ LET segments == split(buffer \o netbuf, <<>>)
         complete == SubSeq(segments, 1, Len(segments) - 1)
     IN  /\ buffer' = segments[Len(segments)]
         /\ lines' = complete
         /\ gpc' = IF complete = <<>> THEN "read" ELSE "lines"
  /\ received' = received \o netbuf
  /\ netbuf' = <<>>
  /\ UNCHANGED <<libVars, built, config, runVars, clientVars, tokenVars, options, reader,
                 messageId, yielded, callbackLog, failure, exit, sending,
                 linesSent, closed>>

\* at the end of the body what the buffer holds is processed as a last line
ReadDoneFlushes ==
  /\ gpc = "read" /\ netbuf = <<>> /\ closed
  /\ IF buffer = <<>>
     THEN /\ gpc' = "done"
          /\ exit' = "end"
          /\ reader' = finally("end")
          /\ UNCHANGED lines
     ELSE /\ gpc' = "lines"
          /\ lines' = <<buffer>>
          /\ UNCHANGED <<exit, reader>>
  /\ buffer' = <<>>
  /\ UNCHANGED <<libVars, built, config, runVars, clientVars, tokenVars, options,
                 messageId, yielded, callbackLog, failure, received, netbuf,
                 sending, linesSent, closed>>

\* reader.read() resolves with done: the loop is left and the generator
\* returns
ReadDone ==
  /\ gpc = "read" /\ netbuf = <<>> /\ closed
  /\ gpc' = "done"
  /\ exit' = "end"
  /\ reader' = finally("end")
  /\ buffer' = <<>>
  /\ UNCHANGED <<libVars, built, config, runVars, clientVars, tokenVars, options, lines,
                 messageId, yielded, callbackLog, failure, received, netbuf,
                 sending, linesSent, closed>>

\* reader.read() rejects and the request is issued again
ReadRejectsReconnects ==
  /\ gpc = "read"
  /\ calls[1] < config.maxAttempts
  /\ invoke(1, "stream", calls[1])
  /\ gpc' = "connect"
  /\ reader' = "none"
  /\ buffer' = <<>>
  /\ netbuf' = <<>>
  /\ sending' = <<>>
  /\ UNCHANGED <<libVars, built, config, kind, attempt, delay, retryDelay, timer, error,
                 thrown, rejection, result, sleeps, usage, maxSessionTokens,
                 response, emitted, started, tokenVars, options, lines,
                 messageId, yielded, callbackLog, failure, exit, received,
                 linesSent, closed>>

\* reader.read() rejects: the catch clause calls onError and rethrows
ReadRejects ==
  /\ gpc = "read"
  /\ \E e \in ReadFailures :
        LET typedError == typedErrorOf(e) IN
        /\ callbackLog' = callbackLog \o callback(options, "onError", typedError.class)
        /\ failure' = typedError
  /\ gpc' = "failed"
  /\ exit' = "readError"
  /\ reader' = finally("readError")
  /\ buffer' = <<>>
  /\ netbuf' = <<>>
  /\ sending' = <<>>
  /\ UNCHANGED <<libVars, built, config, runVars, clientVars, tokenVars, options, lines,
                 messageId, yielded, received, linesSent, closed>>

\* one pass of the `for` body; after the last line the loop issues the next
\* read
ProcessLine ==
  /\ gpc = "lines"
  /\ LET o == forBody(Head(lines), options, messageId) IN
     IF o.returns
     THEN /\ gpc' = "done"
          /\ exit' = "DONE"
          /\ reader' = finally("DONE")
          /\ lines' = <<>>
          /\ buffer' = <<>>
          /\ UNCHANGED <<messageId, yielded, callbackLog>>
     ELSE /\ callbackLog' = callbackLog \o o.invoked
          /\ messageId' = o.messageId
          /\ yielded' = yielded \o o.yields
          /\ lines' = Tail(lines)
          /\ gpc' = IF o.yields # <<>> THEN "suspendedYield"
                    ELSE IF Tail(lines) = <<>> THEN "read" ELSE "lines"
          /\ UNCHANGED <<exit, reader, buffer>>
  /\ UNCHANGED <<libVars, built, config, runVars, clientVars, tokenVars, options,
                 failure, received, netbuf, sending, linesSent, closed>>

\* the consumer's next() after a yield: the `for` loop goes on
IteratorResume ==
  /\ gpc = "suspendedYield"
  /\ gpc' = IF lines = <<>> THEN "read" ELSE "lines"
  /\ UNCHANGED <<libVars, built, config, runVars, clientVars, tokenVars, options, reader,
                 buffer, lines, messageId, yielded, callbackLog, failure, exit,
                 received, netbuf, sending, linesSent, closed>>

\* the consumer leaves its loop after an element: return() makes the
\* suspended yield return, and the finally clause runs
IteratorReturn ==
  /\ gpc = "suspendedYield"
  /\ gpc' = "done"
  /\ exit' = "return"
  /\ reader' = finally("return")
  /\ lines' = <<>>
  /\ buffer' = <<>>
  /\ UNCHANGED <<libVars, built, config, runVars, clientVars, tokenVars, options,
                 messageId, yielded, callbackLog, failure, received, netbuf,
                 sending, linesSent, closed>>

NextStream ==
  \/ Stream
  \/ IteratorStart
  \/ StreamFetchRejects
  \/ StreamFetchRespondsError
  \/ StreamFetchRespondsOk
  \/ TimerFires(1)
  \/ SleepResumes(1)
  \/ ServerSends
  \/ ServerCloses
  \/ ReadResolves
  \/ ReadDone
  \/ ReadRejects
  \/ ProcessLine
  \/ IteratorResume
  \/ IteratorReturn

SpecStream == InitStream /\ [][NextStream]_vars

(***************************************************************************)
(* SpecCallbacks: SpecStream with callbacks that throw.                    *)
(***************************************************************************)
AllCallbacks == {"onStart", "onContent", "onComplete", "onError"}

\* all callbacks given: onContent throws; onStart and onComplete throw
ThrowingStreamOptions ==
  {AllCallbacks \cup {"onContent throws"},
   AllCallbacks \cup {"onStart throws", "onComplete throws"}}

\* stream(request, options) with callbacks that throw
StreamThrowing ==
  /\ gpc = "none"
  /\ gpc' = "suspendedStart"
  /\ options' \in ThrowingStreamOptions
  /\ UNCHANGED <<libVars, built, config, runVars, clientVars, tokenVars, reader, buffer,
                 lines, messageId, yielded, callbackLog, failure, exit,
                 received, netbuf, sending, linesSent, closed>>

NextCallbacks ==
  \/ StreamThrowing
  \/ IteratorStart
  \/ StreamFetchRejects
  \/ StreamFetchRespondsError
  \/ StreamFetchRespondsOk
  \/ TimerFires(1)
  \/ SleepResumes(1)
  \/ ServerSends
  \/ ServerCloses
  \/ ReadResolves
  \/ ReadDone
  \/ ReadRejects
  \/ ProcessLine
  \/ IteratorResume
  \/ IteratorReturn

SpecCallbacks == InitStream /\ [][NextCallbacks]_vars

(***************************************************************************)
(* SpecClassify: ErrorClassifier called with arbitrary responses and       *)
(* arbitrary thrown values.                                                *)
(***************************************************************************)
\* the status codes of responses that are not ok
ClassifiedStatuses == {300, 399, 400, 404, 418, 429, 499, 500, 503}

\* values of the retry-after header: none, numerals, an HTTP date
RetryAfterHeaders ==
  {<<>>, <<"6", "0">>, <<"0">>, <<"7">>, <<"W", "e", "d", ",", " ", "2", "1">>}

\* the bodies: JSON with error.message, JSON without, not JSON
ClassifiedResponses ==
  {Response(s, h, b[1], b[2], FALSE, NoUsage) :
     s \in ClassifiedStatuses, h \in RetryAfterHeaders,
     b \in {<<TRUE, <<"Overloaded">>>>, <<TRUE, <<>>>>, <<FALSE, <<>>>>}}

\* the values a catch clause can hold: classified errors, Errors of the
\* runtime, a string, null, undefined, a plain object
CaughtValues ==
  {WithId(NetworkError(<<"Request timeout">>, <<>>), 1),
   WithId(ClientError(<<"Bad", "request">>, 400, <<"errorData">>), 2),
   WithId(ServerError(<<"Overloaded">>, 503, <<>>), 3),
   WithId(RateLimitError(<<"Rate", "limited">>, Num(7), <<>>), 4),
   WithId(RateLimitError(<<"Rate", "limited">>, Undefined, <<>>), 5),
   JsError("TypeError", <<"fetch", "failed">>),
   JsError("TypeError", <<"Failed", "to", "fetch">>),
   JsError("TypeError", <<"x", "is", "not", "a", "function">>),
   JsError("Error", <<"socket", "hang", "up">>),
   JsError("SyntaxError", <<"Unexpected", "token">>),
   JsError("string", <<"reset">>),
   JsError("null", <<>>),
   JsError("undefined", <<>>),
   JsError("object", <<>>)}

InitClassify ==
  /\ built = NoError
  /\ config \in {c \in Configs : c.maxAttempts = 1 /\ c.initialDelay = 1
                                 /\ c.backoffFactor = 2 /\ c.respectRetryAfter}
  /\ InitRuns
  /\ InitClientIdle
  /\ InitTokensIdle
  /\ InitStreamIdle
  /\ InitLibIdle

ClassifyHttpError ==
  /\ \E resp \in ClassifiedResponses :
        call' = Call("classifyHttpError", resp, classifyHttpError(resp))
  /\ UNCHANGED <<clientConfig, AI_PROVIDER, historyVars, seqs, built, config, runVars, clientVars, tokenVars, streamVars>>

\* classifyError is given a caught value, or what the classifier returned last
ClassifyError ==
  /\ \E err \in CaughtValues \cup (IF call.fn # "none" THEN {call.ret} ELSE {}) :
        call' = Call("classifyError", err, classifyError(err))
  /\ UNCHANGED <<clientConfig, AI_PROVIDER, historyVars, seqs, built, config, runVars, clientVars, tokenVars, streamVars>>

NextClassify ==
  \/ ClassifyHttpError
  \/ ClassifyError

SpecClassify == InitClassify /\ [][NextClassify]_vars

(***************************************************************************)
(* SpecRequest: the wire request of sendMessage and streamMessage          *)
(* (src/client/claude-client.ts).  An object is a function from its keys;  *)
(* an object without keys is <<>>.                                         *)
(***************************************************************************)
\* the properties of target are replaced by those of source
spreadKeepsTarget(target, source) ==
  [k \in DOMAIN target \cup DOMAIN source |->
     IF k \in DOMAIN target THEN target[k] ELSE source[k]]

\* { ...target, ...source }: the own properties of source, one of value
\* undefined included, replace those of target
spread(target, source) ==
  [k \in DOMAIN target \cup DOMAIN source |->
     IF k \in DOMAIN source THEN source[k] ELSE target[k]]

\* const { key, ...rest } = object
rest(object, key) == [k \in DOMAIN object \ {key} |-> object[k]]

\* the request sendMessage builds
sendMessageRequest(cfg, messages, opts) ==
  spread([model |-> cfg.model, max_tokens |-> cfg.maxTokens,
          temperature |-> cfg.temperature, messages |-> messages], opts)

\* the request streamMessage builds
streamMessageRequest(cfg, messages, opts) ==
  LET requestOptions == rest(opts, "onContent") IN
  spread([model |-> cfg.model, max_tokens |-> cfg.maxTokens,
          temperature |-> cfg.temperature, messages |-> messages,
          stream |-> TRUE], requestOptions)

\* the configurations given to the constructor, over the defaults
ClientConfigs ==
  {[model |-> m, maxTokens |-> t, temperature |-> te] :
     m \in {DefaultClientConfig.model, "claude-opus-4-20250514"},
     t \in {DefaultClientConfig.maxTokens, 1024},
     te \in {DefaultClientConfig.temperature, Num(0)}}

\* an optional property: absent (<<>>) or present with a value (<<v>>)
Optional(values) == {<<>>} \cup {<<v>> : v \in values}

\* the object with the properties that are present
Object(props) ==
  [k \in {key \in DOMAIN props : props[key] # <<>>} |-> props[k][1]]

\* the per-call options of sendMessage: Partial<ClaudeRequest>
RequestOptions ==
  {Object([model |-> m, max_tokens |-> t, temperature |-> te, messages |-> ms,
           stream |-> st, system |-> sy]) :
     m \in Optional({"claude-opus-4-20250514"}),
     t \in Optional({256}),
     te \in Optional({Num(0), Undefined}),
     ms \in Optional({<<"Other">>}),
     st \in Optional({FALSE}),
     sy \in Optional({"Be brief"})}

\* the per-call options of streamMessage: those, with or without onContent
StreamRequestOptions ==
  RequestOptions \cup {spread(o, [onContent |-> "function"]) : o \in RequestOptions}

MessageLists == {<<"Hi">>}

InitRequest ==
  /\ built = NoError
  /\ config \in {retryConfigOf(m, d) : m \in ClientMaxRetries, d \in ClientRetryDelays}
  /\ InitRuns
  /\ InitClientIdle
  /\ InitTokensIdle
  /\ InitStreamIdle
  /\ call = NoCall
  /\ clientConfig \in ClientConfigs
  /\ AI_PROVIDER = <<>>
  /\ InitHistoryIdle
  /\ InitSequencesIdle

\* sendMessage(messages, options) up to the request
BuildSendRequest ==
  /\ \E messages \in MessageLists, opts \in RequestOptions :
        call' = Call("sendMessage", [messages |-> messages, options |-> opts],
                     sendMessageRequest(clientConfig, messages, opts))
  /\ UNCHANGED <<clientConfig, AI_PROVIDER, historyVars, seqs, built, config, runVars, clientVars, tokenVars, streamVars>>

\* streamMessage(messages, options) up to the request
BuildStreamRequest ==
  /\ \E messages \in MessageLists, opts \in StreamRequestOptions :
        call' = Call("streamMessage", [messages |-> messages, options |-> opts],
                     streamMessageRequest(clientConfig, messages, opts))
  /\ UNCHANGED <<clientConfig, AI_PROVIDER, historyVars, seqs, built, config, runVars, clientVars, tokenVars, streamVars>>

NextRequest ==
  \/ BuildSendRequest
  \/ BuildStreamRequest

SpecRequest == InitRequest /\ [][NextRequest]_vars

(***************************************************************************)
(* SpecFactory: createAIClient (src/client/ai-client-factory.ts) under a   *)
(* process environment that changes.  A value that may be undefined is     *)
(* <<>> or <<v>>.                                                          *)
(***************************************************************************)
supportedProviders == <<"claude", "openai">>

\* array.includes(value); undefined is no element of supportedProviders
includes(array, value) ==
  value # <<>> /\ \E i \in 1..Len(array) : array[i] = value[1]

\* a ?? b
Coalesce(a, b) == IF a # <<>> THEN a ELSE b

\* the environment is asked first
createAIClientEnvironmentFirst(cfg, envProvider) ==
  LET isValidProvider == includes(supportedProviders, envProvider)
      provider == Coalesce(IF isValidProvider THEN envProvider ELSE <<>>,
                           Coalesce(cfg.providerOverride, <<"claude">>))
  IN  [provider |-> provider[1],
       client |-> IF provider[1] = "openai" THEN "OpenAIClient" ELSE "ClaudeClient",
       config |-> cfg]

\* createAIClient(config) with process.env.AI_PROVIDER = envProvider: the
\* provider resolved, the class of the client constructed, and the
\* configuration given to its constructor
createAIClient(cfg, envProvider) ==
  LET isValidProvider == includes(supportedProviders, envProvider)
      provider == Coalesce(cfg.providerOverride,
                           Coalesce(IF isValidProvider THEN envProvider ELSE <<>>,
                                    <<"claude">>))
  IN  [provider |-> provider[1],
       client |-> IF provider[1] = "openai" THEN "OpenAIClient" ELSE "ClaudeClient",
       config |-> cfg]

\* values of AI_PROVIDER: unset, the supported providers, others
EnvProviders == {<<>>, <<"claude">>, <<"openai">>, <<"gemini">>, <<"OpenAI">>, <<"">>}

\* configurations given to createAIClient
FactoryConfigs ==
  {[apiKey |-> k, providerOverride |-> o] :
     k \in {"key-1", "key-2"}, o \in {<<>>, <<"claude">>, <<"openai">>}}

InitFactory ==
  /\ built = NoError
  /\ config \in {retryConfigOf(m, d) : m \in ClientMaxRetries, d \in ClientRetryDelays}
  /\ InitRuns
  /\ InitClientIdle
  /\ InitTokensIdle
  /\ InitStreamIdle
  /\ call = NoCall
  /\ clientConfig = DefaultClientConfig
  /\ AI_PROVIDER \in EnvProviders
  /\ InitHistoryIdle
  /\ InitSequencesIdle

\* the process sets or deletes process.env.AI_PROVIDER
SetEnvProvider ==
  /\ AI_PROVIDER' \in EnvProviders \ {AI_PROVIDER}
  /\ UNCHANGED <<call, clientConfig, historyVars, seqs, built, config, runVars, clientVars, tokenVars, streamVars>>

CreateAIClient ==
  /\ \E cfg \in FactoryConfigs :
        call' = Call("createAIClient", [config |-> cfg, env |-> AI_PROVIDER],
                     createAIClient(cfg, AI_PROVIDER))
  /\ UNCHANGED <<clientConfig, AI_PROVIDER, historyVars, seqs, built, config, runVars, clientVars, tokenVars, streamVars>>

NextFactory ==
  \/ SetEnvProvider
  \/ CreateAIClient

SpecFactory == InitFactory /\ [][NextFactory]_vars

(***************************************************************************)
(* SpecHistory: createConversation and addMessage on one                   *)
(* ConversationHistoryManager, while time passes.                          *)
(***************************************************************************)
\* messages stored at most, over all conversations
MaxMessages == 3

\* the messages the Map holds
MessagesStored(convs) ==
  LET count(id) == IF id \in DOMAIN convs THEN Len(convs[id].messages) ELSE 0
  IN  count("c1") + count("conv_1")

\* the latest time
MaxTime == 1

\* map.set(key, value)
set(map, key, value) ==
  [k \in DOMAIN map \cup {key} |-> IF k = key THEN value ELSE map[k]]

\* the value createConversation stores
newConversation(conversationId, title, t) ==
  [meta |-> [id |-> conversationId, title |-> title, createdAt |-> t,
             updatedAt |-> t, totalTokens |-> 0, messageCount |-> 0],
   messages |-> <<>>]

\* the tokens are not added
addMessageDropsTokens(conversation, message, tokenCount, t) ==
  [meta |-> [conversation.meta EXCEPT
               !.messageCount = @ + 1,
               !.updatedAt = t],
   messages |-> Append(conversation.messages, message)]

\* what addMessage does to the conversation it found
addMessage(conversation, message, tokenCount, t) ==
  [meta |-> [conversation.meta EXCEPT
               !.messageCount = @ + 1,
               !.updatedAt = t,
               !.totalTokens = IF Truthy(tokenCount) THEN @ + tokenCount.v ELSE @],
   messages |-> Append(conversation.messages, message)]

\* getMessages(conversationId): a copy of the messages, [] for an unknown id
getMessages(convs, conversationId) ==
  IF conversationId \in DOMAIN convs THEN convs[conversationId].messages ELSE <<>>

\* [...messages].reverse()
RECURSIVE reverse(_)
reverse(array) ==
  IF array = <<>> THEN <<>> ELSE Append(reverse(Tail(array)), Head(array))

\* the `for` loop of trimToFitContext over the messages not yet visited;
\* estimatedTokens = content.length / 4 is exact in quarters of a token, and
\* tokenCount is kept in quarters
RECURSIVE trimLoopSkips(_, _, _, _)
trimLoopSkips(reversedMessages, trimmedMessages, tokenCount, maxTokens) ==
  IF reversedMessages = <<>> THEN trimmedMessages
  ELSE LET message == Head(reversedMessages)
           estimatedTokens == Len(message.content)
       IN  IF tokenCount + estimatedTokens <= 4 * maxTokens
           THEN trimLoopSkips(Tail(reversedMessages), <<message>> \o trimmedMessages,
                              tokenCount + estimatedTokens, maxTokens)
           ELSE trimLoopSkips(Tail(reversedMessages), trimmedMessages,
                              tokenCount, maxTokens)

RECURSIVE trimLoop(_, _, _, _)
trimLoop(reversedMessages, trimmedMessages, tokenCount, maxTokens) ==
  IF reversedMessages = <<>> THEN trimmedMessages
  ELSE LET message == Head(reversedMessages)
           estimatedTokens == Len(message.content)
       IN  IF tokenCount + estimatedTokens <= 4 * maxTokens
           THEN trimLoop(Tail(reversedMessages), <<message>> \o trimmedMessages,
                         tokenCount + estimatedTokens, maxTokens)
           ELSE trimmedMessages

\* a message that does not fit is passed over and the walk goes on
trimToFitContextSkips(convs, conversationId, maxTokens) ==
  trimLoopSkips(reverse(getMessages(convs, conversationId)), <<>>, 0, maxTokens)

\* trimToFitContext(conversationId, maxTokens)
trimToFitContext(convs, conversationId, maxTokens) ==
  trimLoop(reverse(getMessages(convs, conversationId)), <<>>, 0, maxTokens)

\* the maxTokens trimToFitContext is called with
TrimMaxTokens == {1, 2}

\* the ids trimToFitContext is called with
TrimIds == {"c1", "non-existent"}

\* the arguments of createConversation: an id and a title, neither
CreateArgs ==
  {[id |-> <<"c1">>, title |-> <<"Test Title">>], [id |-> <<>>, title |-> <<>>]}

\* what generateId returns
GeneratedIds == {"conv_1"}

\* the ids addMessage is called with: that of createConversation, a
\* generated one, one never created
AddIds == {"c1", "conv_1", "non-existent"}

\* the message and the tokenCount of addMessage
AddArgs ==
  {[message |-> [role |-> "user", content |-> "Hello"], tokenCount |-> Num(5)],
   [message |-> [role |-> "assistant", content |-> "Hi"], tokenCount |-> Undefined],
   [message |-> [role |-> "user", content |-> "Hello"], tokenCount |-> Num(0)]}

InitHistory ==
  /\ built = NoError
  /\ config \in {retryConfigOf(m, d) : m \in ClientMaxRetries, d \in ClientRetryDelays}
  /\ InitRuns
  /\ InitClientIdle
  /\ InitTokensIdle
  /\ InitStreamIdle
  /\ InitLibIdle

\* createConversation(id, title)
CreateConversation ==
  /\ \E a \in CreateArgs, generated \in GeneratedIds :
        LET conversationId == Coalesce(a.id, <<generated>>)[1] IN
        /\ conversations' = set(conversations, conversationId,
                                newConversation(conversationId, a.title, now))
        /\ added' = set(added, conversationId, <<>>)
        /\ call' = Call("createConversation", a, conversationId)
  /\ UNCHANGED <<now, clientConfig, AI_PROVIDER, seqs, built, config, runVars,
                 clientVars, tokenVars, streamVars>>

\* addMessage(conversationId, message, tokenCount)
AddMessage ==
  /\ \E conversationId \in AddIds, a \in AddArgs :
        LET arg == [id |-> conversationId, message |-> a.message,
                    tokenCount |-> a.tokenCount]
        IN
        IF conversationId \notin DOMAIN conversations
        THEN /\ call' = Call("addMessage", arg,
                             JsError("Error", <<"Conversation", conversationId, "not found">>))
             /\ UNCHANGED <<conversations, added>>
        ELSE /\ MessagesStored(conversations) < MaxMessages
             /\ conversations' =
                   set(conversations, conversationId,
                       addMessage(conversations[conversationId], a.message,
                                  a.tokenCount, now))
             /\ added' = set(added, conversationId, Append(added[conversationId], arg))
             /\ call' = Call("addMessage", arg, NoError)
  /\ UNCHANGED <<now, clientConfig, AI_PROVIDER, seqs, built, config, runVars,
                 clientVars, tokenVars, streamVars>>

\* trimToFitContext(conversationId, maxTokens)
TrimToFitContext ==
  /\ \E conversationId \in TrimIds, maxTokens \in TrimMaxTokens :
        call' = Call("trimToFitContext",
                     [id |-> conversationId, maxTokens |-> maxTokens],
                     trimToFitContext(conversations, conversationId, maxTokens))
  /\ UNCHANGED <<conversations, added, now, clientConfig, AI_PROVIDER, seqs, built,
                 config, runVars, clientVars, tokenVars, streamVars>>

\* time passes
Tick ==
  /\ now < MaxTime
  /\ now' = now + 1
  /\ UNCHANGED <<conversations, added, call, clientConfig, AI_PROVIDER, seqs, built,
                 config, runVars, clientVars, tokenVars, streamVars>>

NextHistory ==
  \/ CreateConversation
  \/ AddMessage
  \/ TrimToFitContext
  \/ Tick

SpecHistory == InitHistory /\ [][NextHistory]_vars

(***************************************************************************)
(* SpecSequences: two streamMessage calls on one client, their sequences   *)
(* consumed in any interleaving, while the usage of the session can reach  *)
(* the limit.  SpecStream has the request and the callbacks in detail;     *)
(* here each sequence has the locals of its own generator.                 *)
(***************************************************************************)
\* next() calls made on a sequence after its end
MaxDrained == 1

\* the bodies the server answers a stream request with
StreamBodies ==
  {DataPrefixCut \o <<DeltaOpen, "\"A\"}}", NL>>
     \o DataPrefix \o <<"{\"type\":\"content_block_delta\",\"delta\":{\"partial_json\":\"\"}}", NL>>,
   DataPrefix \o <<"{\"type\":\"content_block_delta\",\"delta\":{\"partial_json\":\"\"}}", NL>>
     \o DataPrefix \o DoneSentinel \o <<NL>>
     \o DataPrefixCut \o <<DeltaOpen, "\"A\"}}", NL>>}

\* the response a sendMessage call tracks when it resolves
TrackedResponse ==
  [input_tokens |-> Num(60000), output_tokens |-> Num(40000),
   cache_creation_input_tokens |-> Undefined, cache_read_input_tokens |-> Undefined]

InitSequences ==
  /\ built = NoError
  /\ config \in {retryConfigOf(m, d) : m \in ClientMaxRetries, d \in ClientRetryDelays}
  /\ InitRuns
  /\ InitClientIdle
  /\ InitTokensIdle
  /\ InitStreamIdle
  /\ InitLibIdle

\* what a step of a sequence leaves alone, but for seqs, usage and
\* transportCalls
sequenceFrame ==
  UNCHANGED <<call, clientConfig, AI_PROVIDER, historyVars, built, config, runVars,
              tokenVars, streamVars, maxSessionTokens, deadline, response,
              emitted, started>>

\* streamMessage(messages, options): the budget check, then
\* streamingClient.stream(...) creates the generator, its body not entered
StreamMessageCall(i) ==
  /\ seqs[i].gpc = "none"
  /\ seqs' = [seqs EXCEPT ![i].gpc =
                IF isSessionLimitReached THEN "rejected" ELSE "suspendedStart"]
  /\ sequenceFrame
  /\ UNCHANGED <<usage, transportCalls>>

\* the consumer's first next(): the body is entered and the request issued
SequenceStart(i) ==
  /\ seqs[i].gpc = "suspendedStart"
  /\ seqs' = [seqs EXCEPT ![i].gpc = "connect", ![i].requests = 1]
  /\ transportCalls' = transportCalls + 1
  /\ sequenceFrame
  /\ UNCHANGED usage

\* the request fails and the Retry Handler issues it again
SequenceFetchRetried(i) ==
  /\ seqs[i].gpc = "connect"
  /\ seqs[i].requests < config.maxAttempts
  /\ seqs' = [seqs EXCEPT ![i].requests = @ + 1]
  /\ transportCalls' = transportCalls + 1
  /\ sequenceFrame
  /\ UNCHANGED usage

\* the request fails for good: the generator throws
SequenceFetchFails(i) ==
  /\ seqs[i].gpc = "connect"
  /\ seqs' = [seqs EXCEPT ![i].gpc = "failed"]
  /\ sequenceFrame
  /\ UNCHANGED <<usage, transportCalls>>

\* the request is answered: the generator takes the reader of the body
SequenceFetchResolves(i) ==
  /\ seqs[i].gpc = "connect"
  /\ \E body \in StreamBodies :
        seqs' = [seqs EXCEPT ![i].gpc = "read", ![i].reader = "locked",
                             ![i].wire = body]
  /\ sequenceFrame
  /\ UNCHANGED <<usage, transportCalls>>

\* the buffer is a field of the StreamingClient, that of the first sequence
SequenceReadSharesBuffer(i) ==
  /\ seqs[i].gpc = "read" /\ seqs[i].wire # <<>>
  /\ \E k \in 1..Len(seqs[i].wire) :
        LET chunk == SubSeq(seqs[i].wire, 1, k)
            segments == split(seqs[1].buffer \o chunk, <<>>)
            complete == SubSeq(segments, 1, Len(segments) - 1)
        IN  seqs' = [seqs EXCEPT
                       ![i].buffer = segments[Len(segments)],
                       ![i].lines = complete,
                       ![i].received = @ \o chunk,
                       ![i].wire = SubSeq(@, k + 1, Len(@)),
                       ![i].gpc = IF complete = <<>> THEN "read" ELSE "lines"]
  /\ sequenceFrame
  /\ UNCHANGED <<usage, transportCalls>>

\* reader.read() resolves with a chunk of the body
SequenceRead(i) ==
  /\ seqs[i].gpc = "read" /\ seqs[i].wire # <<>>
  /\ \E k \in 1..Len(seqs[i].wire) :
        LET chunk == SubSeq(seqs[i].wire, 1, k)
            segments == split(seqs[i].buffer \o chunk, <<>>)
            complete == SubSeq(segments, 1, Len(segments) - 1)
        IN  seqs' = [seqs EXCEPT
                       ![i].buffer = segments[Len(segments)],
                       ![i].lines = complete,
                       ![i].received = @ \o chunk,
                       ![i].wire = SubSeq(@, k + 1, Len(@)),
                       ![i].gpc = IF complete = <<>> THEN "read" ELSE "lines"]
  /\ sequenceFrame
  /\ UNCHANGED <<usage, transportCalls>>

\* reader.read() resolves with done
SequenceReadDone(i) ==
  /\ seqs[i].gpc = "read" /\ seqs[i].wire = <<>>
  /\ seqs' = [seqs EXCEPT ![i].gpc = "done", ![i].reader = finally("end"),
                          ![i].buffer = <<>>]
  /\ sequenceFrame
  /\ UNCHANGED <<usage, transportCalls>>

\* reader.read() rejects
SequenceReadRejects(i) ==
  /\ seqs[i].gpc = "read"
  /\ seqs' = [seqs EXCEPT ![i].gpc = "failed",
                          ![i].reader = finally("readError"),
                          ![i].buffer = <<>>, ![i].wire = <<>>]
  /\ sequenceFrame
  /\ UNCHANGED <<usage, transportCalls>>

\* one pass of the `for` body (streamMessage hands on onContent only; here
\* none is given)
SequenceProcessLine(i) ==
  /\ seqs[i].gpc = "lines"
  /\ LET o == forBody(Head(seqs[i].lines), {}, "") IN
     IF o.returns
     THEN seqs' = [seqs EXCEPT ![i].gpc = "done", ![i].reader = finally("DONE"),
                               ![i].lines = <<>>, ![i].buffer = <<>>,
                               ![i].wire = <<>>]
     ELSE seqs' = [seqs EXCEPT
                     ![i].yielded = @ \o o.yields,
                     ![i].lines = Tail(@),
                     ![i].gpc = IF o.yields # <<>> THEN "suspendedYield"
                                ELSE IF Tail(seqs[i].lines) = <<>> THEN "read"
                                ELSE "lines"]
  /\ sequenceFrame
  /\ UNCHANGED <<usage, transportCalls>>

\* the consumer's next() after an element
SequenceResume(i) ==
  /\ seqs[i].gpc = "suspendedYield"
  /\ seqs' = [seqs EXCEPT ![i].gpc = IF seqs[i].lines = <<>> THEN "read" ELSE "lines"]
  /\ sequenceFrame
  /\ UNCHANGED <<usage, transportCalls>>

\* the consumer leaves its loop after an element
SequenceReturn(i) ==
  /\ seqs[i].gpc = "suspendedYield"
  /\ seqs' = [seqs EXCEPT ![i].gpc = "done", ![i].reader = finally("return"),
                          ![i].lines = <<>>, ![i].buffer = <<>>, ![i].wire = <<>>]
  /\ sequenceFrame
  /\ UNCHANGED <<usage, transportCalls>>

\* next() on a generator that has returned or thrown: { done: true }
SequenceNextAfterEnd(i) ==
  /\ seqs[i].gpc \in {"done", "failed"}
  /\ seqs[i].drained < MaxDrained
  /\ seqs' = [seqs EXCEPT ![i].drained = @ + 1]
  /\ sequenceFrame
  /\ UNCHANGED <<usage, transportCalls>>

\* a sendMessage call of the client resolves meanwhile: its usage is tracked
SendMessageResolved ==
  /\ usage.requestCount < 1
  /\ usage' = trackUsage(usage, TrackedResponse)
  /\ UNCHANGED <<seqs, transportCalls>>
  /\ sequenceFrame

NextSequences ==
  \/ \E i \in Sequences :
       \/ StreamMessageCall(i)
       \/ SequenceStart(i)
       \/ SequenceFetchRetried(i)
       \/ SequenceFetchFails(i)
       \/ SequenceFetchResolves(i)
       \/ SequenceRead(i)
       \/ SequenceReadDone(i)
       \/ SequenceReadRejects(i)
       \/ SequenceProcessLine(i)
       \/ SequenceResume(i)
       \/ SequenceReturn(i)
       \/ SequenceNextAfterEnd(i)
  \/ SendMessageResolved

SpecSequences == InitSequences /\ [][NextSequences]_vars

(***************************************************************************)
(* Properties of RetryHandler.execute (SpecRetry).                         *)
(***************************************************************************)
\* a thrown value the retry policy treats as retryable: a classified error
\* with the flag set, or a connectivity fault
IsRetryableValue(e) ==
  \/ e.class \in {"NetworkError", "ServerError", "RateLimitError", "ClientError"}
     /\ e.isRetryable
  \/ e.class = "TypeError" /\ Includes(e.message, "fetch")

MockRuns == {r \in Runs : kind[r] = "mock"}

\* C1: with maxAttempts = N >= 1 and an operation failing retryably on every
\* invocation, execute rejects after exactly N invocations (never more) with
\* the very object the last invocation threw.
C1_ExhaustedAfterMaxAttempts ==
  \A r \in MockRuns :
    config.maxAttempts >= 1 =>
      /\ calls[r] <= config.maxAttempts
      /\ (pc[r] = "rejected" /\ IsRetryableValue(thrown[r])) =>
            /\ calls[r] = config.maxAttempts
            /\ rejection[r] = thrown[r]
            /\ rejection[r].id = config.maxAttempts

C1_Witness ==
  /\ pc[1] = "rejected"
  /\ kind[1] = "mock"
  /\ config.maxAttempts = 3
  /\ calls[1] = 3
  /\ thrown[1].class = "NetworkError"
  /\ rejection[1].id = 3

\* C2: after k < maxAttempts retryable failures followed by a success, execute
\* returns the success value after exactly k+1 invocations (one sleep per
\* failure); a first-invocation success is one invocation and no delay; the
\* run is never given up while fewer than maxAttempts retryable failures
\* have happened.
C2_SucceedsAfterRetries ==
  \A r \in MockRuns :
    /\ pc[r] = "resolved" =>
          /\ result[r].type = "success"
          /\ calls[r] = sleeps[r] + 1
          /\ calls[r] = attempt[r] + 1
          /\ attempt[r] < config.maxAttempts \/ attempt[r] = 0
          /\ calls[r] = 1 => (sleeps[r] = 0 /\ timer[r] = "none")
    /\ (pc[r] = "rejected" /\ IsRetryableValue(thrown[r])) =>
          thrown[r].id >= config.maxAttempts

C2_Witness ==
  /\ pc[1] = "resolved"
  /\ kind[1] = "mock"
  /\ result[1].type = "success"
  /\ attempt[1] = 2
  /\ calls[1] = 3
  /\ sleeps[1] = 2

\* C3: a ClientError thrown by the operation ends the run at once, whatever
\* maxAttempts and the attempt number: the run is rejected with that object,
\* the operation is not invoked again and no sleep follows; thrown by the
\* first invocation, the operation has been invoked exactly once.
C3_ClientErrorNeverRetried ==
  \A r \in MockRuns :
    thrown[r].class = "ClientError" =>
      /\ pc[r] = "rejected"
      /\ rejection[r] = thrown[r]
      /\ calls[r] = thrown[r].id
      /\ sleeps[r] = thrown[r].id - 1
      /\ timer[r] # "pending"
      /\ inFlight[r] = 0

C3_Witness ==
  /\ kind[1] = "mock"
  /\ thrown[1].class = "ClientError"
  /\ config.maxAttempts = 3
  /\ calls[1] = 1
  /\ pc[1] = "rejected"

\* the retry decision C4 states, for the value thrown by invocation number n
C4_Retried(e, n) ==
  /\ n < config.maxAttempts
  /\ \/ e.class \in {"NetworkError", "ServerError", "RateLimitError", "ClientError"}
        /\ e.isRetryable
     \/ e.class = "TypeError" /\ Includes(e.message, "fetch")

\* C4: each time the operation throws, the run goes on to a retry (sleep)
\* exactly when attempt < maxAttempts and the value is a classified error with
\* isRetryable set or a connectivity fault; otherwise it is rejected with the
\* thrown value.
C4_RetryDecision ==
  [][\A r \in Runs :
       (kind'[r] = "mock" /\ thrown'[r] # thrown[r] /\ thrown'[r] # NoError) =>
          /\ pc'[r] = "sleep" <=> C4_Retried(thrown'[r], calls[r])
          /\ pc'[r] # "sleep" => (pc'[r] = "rejected" /\ rejection'[r] = thrown'[r])
    ]_vars

C4_Witness ==
  /\ kind[1] = "mock"
  /\ pc[1] = "sleep"
  /\ thrown[1].class = "TypeError"
  /\ calls[1] = 1

\* C6: for a RateLimit error with retryAfter set (an integer >= 0) and
\* respectRetryAfter, the delay of the retry is exactly
\* min(retryAfter * 1000, maxRetryAfterDelay); with respectRetryAfter false or
\* retryAfter unset it is a jittered backoff delay.
C6_RetryAfterDelay ==
  \A r \in MockRuns :
    (pc[r] = "sleep" /\ thrown[r].class = "RateLimitError") =>
      IF thrown[r].retryAfter.t = "number" /\ thrown[r].retryAfter.v >= 0
         /\ config.respectRetryAfter
      THEN retryDelay[r] = Min(thrown[r].retryAfter.v * 1000, config.maxRetryAfterDelay)
      ELSE retryDelay[r] < config.maxDelay

\* C7: a retry that does not take the Retry-After branch sleeps for a value in
\* [0, C), C = min(initialDelay * backoffFactor^(a-1), maxDelay), a the number
\* of the failed attempt.
C7_JitterCeiling ==
  \A r \in MockRuns :
    (pc[r] = "sleep" /\ ~retryAfterBranch(thrown[r])) =>
      /\ 0 <= retryDelay[r]
      /\ retryDelay[r] <
           Min(config.initialDelay * Pow(config.backoffFactor, attempt[r] - 1),
               config.maxDelay)

\* C8: an invocation after the first starts only from the sleep of the
\* previous failure, once that failure has been caught and its timer has
\* fired, and no two invocations of a run are in flight together.
C8_SequentialRetries ==
  [][\A r \in Runs :
       /\ inFlight'[r] <= 1
       /\ (kind[r] = "mock" /\ calls'[r] > calls[r] /\ calls[r] >= 1) =>
            /\ pc[r] = "sleep"
            /\ timer[r] = "fired"
            /\ inFlight[r] = 0
            /\ error[r] = thrown[r]
            /\ thrown[r].id = calls[r]
    ]_vars

C8_Witness ==
  /\ kind[1] = "mock"
  /\ pc[1] = "operation"
  /\ calls[1] = 2
  /\ sleeps[1] = 1
  /\ inFlight[1] = 1

(***************************************************************************)
(* Properties of the taxonomy (SpecErr).                                   *)
(***************************************************************************)
\* C5: isRetryable of a classified error is fixed by its kind (Network,
\* Server, RateLimit: true; Client: false) whatever message, status code and
\* context it was built with; a RateLimit error has statusCode 429 and a
\* Network error has none.
C5_RetryableByKind ==
  built # NoError =>
    /\ built.class \in {"NetworkError", "ServerError", "RateLimitError"} => built.isRetryable
    /\ built.class = "ClientError" => ~built.isRetryable
    /\ built.class = "RateLimitError" => built.statusCode = Num(429)
    /\ built.class = "NetworkError" => built.statusCode = Undefined

C5_Witness ==
  /\ built.class = "ClientError"
  /\ built.statusCode = Num(500)
  /\ built.context = <<"errorData">>

(***************************************************************************)
(* Properties of the ClaudeClient send operations (SpecClient).            *)
(***************************************************************************)
\* the run the next call takes
NextRun == CHOOSE r \in Runs : Settled(r) /\ \A q \in Runs : q < r => ~Settled(q)

\* cumulative input + output tokens have reached the configured maximum
BudgetExhausted ==
  /\ maxSessionTokens.t = "number"
  /\ usage.totalInputTokens + usage.totalOutputTokens >= maxSessionTokens.v

ClassifiedKinds == {"NetworkError", "ClientError", "ServerError", "RateLimitError"}

\* C9: a sendMessage / sendMessageAsync / streamMessage call made while
\* input + output tokens >= the session maximum rejects in the calling step
\* with a plain Error naming the limit and the usage, issues no transport call
\* and changes no counter; and the budget stays exhausted over every step
\* that is not resetTokenUsage.
C9_BudgetRejectsBeforeTransport ==
  [][/\ (BudgetExhausted /\ started' = started + 1
           /\ kind'[NextRun] \in {"sendMessage", "streamMessage"}) =>
          /\ pc'[NextRun] = "rejected"
          /\ rejection'[NextRun].class = "Error"
          /\ rejection'[NextRun].class \notin ClassifiedKinds
          /\ Includes(rejection'[NextRun].message, ToString(maxSessionTokens.v))
          /\ Includes(rejection'[NextRun].message,
                      ToString(usage.totalInputTokens + usage.totalOutputTokens))
          /\ calls'[NextRun] = 0
          /\ transportCalls' = transportCalls
          /\ usage' = usage
     /\ (BudgetExhausted /\ usage' # EmptyUsage) => BudgetExhausted'
    ]_vars

C9_Witness ==
  \E r \in Runs :
    /\ BudgetExhausted
    /\ pc[r] = "rejected"
    /\ kind[r] = "streamMessage"
    /\ rejection[r].class = "Error"
    /\ calls[r] = 0
    /\ usage.requestCount = 1
    /\ transportCalls = 1
    /\ started = 3

\* C10: a sendMessage or countTokens call that rejects with anything but the
\* session-budget error rejects with a classified error (Network, Client,
\* Server or RateLimit), the object thrown by its final attempt.
C10_RejectionsAreClassified ==
  \A r \in Runs :
    (pc[r] = "rejected" /\ kind[r] \in {"sendMessage", "countTokens"}
       /\ calls[r] >= 1) =>
      /\ rejection[r].class \in ClassifiedKinds
      /\ rejection[r] = thrown[r]

\* C11: a sendMessage / sendMessageAsync call resolves only from the parsed
\* body of a transport call made through the Retry Handler, and in resolving
\* it tracks the usage of the response, then emits one 'response' event
\* carrying that response, then returns that same response: the counters a
\* listener reads during the event already include the response.  No
\* 'response' event is emitted otherwise.
C11_TrackEmitReturn ==
  [][/\ \A r \in Runs :
          (kind'[r] = "sendMessage" /\ started' = started
             /\ pc[r] # "resolved" /\ pc'[r] = "resolved") =>
            /\ pc[r] = "operation" /\ calls[r] >= 1 /\ transportCalls >= calls[r]
            /\ response[r].ok /\ response[r].hasUsage
            /\ emitted'.count = emitted.count + 1
            /\ emitted'.data = response[r].usage
            /\ result'[r] = Returned("ClaudeResponse", response[r].usage)
            /\ emitted'.observed = usage'
            /\ emitted'.observed.requestCount = usage.requestCount + 1
            /\ emitted'.observed.totalInputTokens =
                 usage.totalInputTokens + OrZero(response[r].usage.input_tokens)
            /\ emitted'.observed.totalOutputTokens =
                 usage.totalOutputTokens + OrZero(response[r].usage.output_tokens)
     /\ emitted' # emitted =>
          \E r \in Runs : kind[r] = "sendMessage" /\ pc[r] = "operation"
                           /\ pc'[r] = "resolved"
    ]_vars

C11_Witness ==
  \E r \in Runs :
    /\ kind[r] = "sendMessage"
    /\ pc[r] = "resolved"
    /\ result[r].type = "ClaudeResponse"
    /\ result[r].usage = emitted.data
    /\ emitted.count = 2
    /\ emitted.observed = usage
    /\ usage.requestCount = 2
    /\ usage.totalInputTokens = 60001

\* the session maximum is a positive number
PositiveMaximum == maxSessionTokens.t = "number" /\ maxSessionTokens.v > 0

\* C13: resetTokenUsage puts, in one step, the four totals, requestCount, the
\* two averages and estimatedCost back to 0, the usage of a tracker just
\* constructed; with a positive maximum the session limit is then not
\* reached, and the sendMessage or streamMessage call made next is accepted.
C13_ResetClears ==
  [][/\ lastOp' = "reset" =>
          /\ usage'.totalInputTokens = 0
          /\ usage'.totalOutputTokens = 0
          /\ usage'.totalCacheCreationTokens = 0
          /\ usage'.totalCacheReadTokens = 0
          /\ usage'.requestCount = 0
          /\ usage'.averageInputTokens[1] = 0
          /\ usage'.averageOutputTokens[1] = 0
          /\ usage'.estimatedCost = 0
          /\ usage' = EmptyUsage
          /\ PositiveMaximum => ~isSessionLimitReached'
     /\ (lastOp = "reset" /\ PositiveMaximum /\ started' = started + 1
           /\ kind'[NextRun] \in {"sendMessage", "streamMessage"}) =>
          /\ pc'[NextRun] # "rejected"
          /\ kind'[NextRun] = "sendMessage" =>
                (pc'[NextRun] = "operation" /\ transportCalls' = transportCalls + 1)
    ]_vars

C13_Witness ==
  \E r \in Runs :
    /\ lastOp = "reset"
    /\ usage = EmptyUsage
    /\ emitted.count = 1
    /\ emitted.observed.totalInputTokens + emitted.observed.totalOutputTokens
         >= maxSessionTokens.v
    /\ emitted.observed.estimatedCost > 0
    /\ kind[r] = "sendMessage"
    /\ pc[r] = "operation"
    /\ started = 2

\* the four token totals and requestCount of u are at most those of v
CountersAtMost(u, v) ==
  /\ u.totalInputTokens <= v.totalInputTokens
  /\ u.totalOutputTokens <= v.totalOutputTokens
  /\ u.totalCacheCreationTokens <= v.totalCacheCreationTokens
  /\ u.totalCacheReadTokens <= v.totalCacheReadTokens
  /\ u.requestCount <= v.requestCount

RECURSIVE SeqSum(_)
\* the sum of a sequence of numbers
SeqSum(ns) == IF ns = <<>> THEN 0 ELSE Head(ns) + SeqSum(Tail(ns))

\* the field of each tracked record, a missing one counting 0
InputTokens == [i \in 1..Len(records) |-> OrZero(records[i].input_tokens)]

OutputTokens == [i \in 1..Len(records) |-> OrZero(records[i].output_tokens)]

CacheCreationTokens ==
  [i \in 1..Len(records) |-> OrZero(records[i].cache_creation_input_tokens)]

CacheReadTokens ==
  [i \in 1..Len(records) |-> OrZero(records[i].cache_read_input_tokens)]

\* the quotient q = <<numerator, denominator>> equals a / b
QuotientIs(q, a, b) == q[2] # 0 /\ b # 0 /\ q[1] * b = a * q[2]

\* C12: after n >= 1 trackUsage calls since construction or the last reset,
\* requestCount is n, each of the four token totals is the sum of its field
\* over the n records (a missing cache field counting 0) and the two averages
\* are totalInputTokens / n and totalOutputTokens / n.
C12_TotalsAndAverages ==
  LET n == Len(records) IN
  n >= 1 =>
    /\ usage.requestCount = n
    /\ usage.totalInputTokens = SeqSum(InputTokens)
    /\ usage.totalOutputTokens = SeqSum(OutputTokens)
    /\ usage.totalCacheCreationTokens = SeqSum(CacheCreationTokens)
    /\ usage.totalCacheReadTokens = SeqSum(CacheReadTokens)
    /\ QuotientIs(usage.averageInputTokens, SeqSum(InputTokens), n)
    /\ QuotientIs(usage.averageOutputTokens, SeqSum(OutputTokens), n)

C12_Witness ==
  /\ lastOp = "trackUsage"
  /\ Len(records) = 2
  /\ records[1].cache_read_input_tokens = Undefined
  /\ records[2].cache_read_input_tokens = Num(500)
  /\ usage.requestCount = 2
  /\ usage.totalInputTokens = 150
  /\ usage.totalCacheReadTokens = 500
  /\ usage.averageInputTokens = <<150, 2>>

\* the maximum a MAX_SESSION_TOKENS value configures: a decimal numeral its
\* value, a text that is no numeral none
ConfiguredMaximum ==
  CASE processEnv = <<"2", "5", "0">> -> Num(250)
    [] processEnv = <<"0">> -> Num(0)
    [] processEnv = <<"a", "b", "c">> -> NaN
    [] OTHER -> Undefined

\* C15: isSessionLimitReached() is true exactly when the input and output
\* tokens tracked since the last reset add up to at least the configured
\* maximum, cache tokens not counting; the maximum is 100000 when
\* MAX_SESSION_TOKENS is not set, and a maximum that is no number is never
\* reached.
C15_LimitReachedIffAtMaximum ==
  LET total == SeqSum(InputTokens) + SeqSum(OutputTokens) IN
  /\ processEnv = <<>> =>
        /\ maxSessionTokens = Num(100000)
        /\ isSessionLimitReached <=> total >= 100000
  /\ processEnv # <<>> =>
        /\ maxSessionTokens = ConfiguredMaximum
        /\ isSessionLimitReached <=>
             (ConfiguredMaximum.t = "number" /\ total >= ConfiguredMaximum.v)

C15_Witness ==
  /\ processEnv = <<"2", "5", "0">>
  /\ Len(records) = 2
  /\ SeqSum(InputTokens) + SeqSum(OutputTokens) = 250
  /\ SeqSum(CacheCreationTokens) = 1000
  /\ isSessionLimitReached

(***************************************************************************)
(* Properties of StreamingClient.stream (SpecStream).                      *)
(***************************************************************************)
\* the records of a text: its newline-terminated lines
Records(text) ==
  LET segments == split(text, <<>>) IN SubSeq(segments, 1, Len(segments) - 1)

IsDataRecord(line) == startsWithData(line)

IsDoneRecord(line) == IsDataRecord(line) /\ slice6(line) = DoneSentinel

IsDeltaRecord(line) ==
  /\ IsDataRecord(line)
  /\ JSONParse(slice6(line)).valid
  /\ JSONParse(slice6(line)).type = "content_block_delta"

RECURSIVE BeforeDone(_)
\* the records that precede the first [DONE] record
BeforeDone(ls) ==
  IF ls = <<>> \/ IsDoneRecord(Head(ls)) THEN <<>>
  ELSE <<Head(ls)>> \o BeforeDone(Tail(ls))

RECURSIVE Fragments(_)
\* the text fragments of the content_block_delta records among ls, in order
Fragments(ls) ==
  IF ls = <<>> THEN <<>>
  ELSE (IF IsDeltaRecord(Head(ls)) THEN <<JSONParse(slice6(Head(ls))).text>> ELSE <<>>)
       \o Fragments(Tail(ls))

ExpectedYield == Fragments(BeforeDone(Records(received)))

IsPrefix(a, b) == Len(a) <= Len(b) /\ SubSeq(b, 1, Len(a)) = a

\* C16: the elements yielded are exactly the text fragments of the
\* content_block_delta records received before the first [DONE] record, in
\* the order received, one per record: all of them once every received
\* record has been processed or the sequence has ended, and while records of
\* a chunk are still to be processed, those the unprocessed ones will add
\* are the only ones missing.  message_start, message_stop, other types and
\* lines without the 'data: ' prefix add nothing.
C16_YieldsDeltasInOrder ==
  /\ (gpc = "read" \/ exit \in {"end", "DONE", "readError"}) =>
        yielded = ExpectedYield
  /\ gpc \in {"lines", "suspendedYield"} =>
        yielded \o Fragments(BeforeDone(lines)) = ExpectedYield
  /\ exit = "return" => IsPrefix(yielded, ExpectedYield)

C16_Witness ==
  /\ exit = "end"
  /\ Len(Records(received)) = 3
  /\ Records(received)[2] = DataPrefix \o <<"{\"type\":\"message_stop\"}">>
  /\ yielded = <<"A", "">>
  /\ options # {}

\* a 'data: ' line whose payload is neither the sentinel nor JSON
IsMalformedRecord(line) ==
  /\ IsDataRecord(line)
  /\ ~IsDoneRecord(line)
  /\ ~JSONParse(slice6(line)).valid

\* C17: the pass of the loop over a 'data: ' line whose payload is not JSON
\* yields nothing, invokes no callback and neither ends nor fails the
\* sequence, which goes on with the next line or the next read, the reader
\* still held; the sequence fails only when a read or the request fails, so
\* the deltas before and after such a line are yielded all the same.
C17_MalformedSkipped ==
  [][/\ (gpc = "lines" /\ IsMalformedRecord(Head(lines))) =>
          /\ yielded' = yielded
          /\ callbackLog' = callbackLog
          /\ lines' = Tail(lines)
          /\ gpc' = (IF Tail(lines) = <<>> THEN "read" ELSE "lines")
          /\ reader' = "locked"
          /\ exit' = "none"
          /\ failure' = NoError
     /\ gpc' = "failed" => exit' \in {"connect", "noBody", "readError"}
     /\ (exit' = "end" /\ \E i \in 1..Len(Records(received')) :
                            IsMalformedRecord(Records(received')[i])) =>
          yielded' = Fragments(BeforeDone(Records(received')))
    ]_vars

C17_Witness ==
  /\ exit = "end"
  /\ Len(Records(received)) = 3
  /\ IsDeltaRecord(Records(received)[1])
  /\ IsMalformedRecord(Records(received)[2])
  /\ IsDeltaRecord(Records(received)[3])
  /\ yielded = <<"A", "">>
  /\ callbackLog = <<"onContent(A)", "onContent()">>

\* C18: the pass of the loop over a 'data: [DONE]' line ends the sequence
\* successfully in that step, the reader released; the records that follow
\* it in the chunk are dropped; a sequence ended by [DONE] has no read
\* pending and no line left to process, has yielded the deltas before the
\* sentinel only, and from then on nothing is read, yielded or passed to a
\* callback.
C18_DoneEndsAtOnce ==
  [][/\ (gpc = "lines" /\ IsDoneRecord(Head(lines))) =>
          /\ gpc' = "done"
          /\ exit' = "DONE"
          /\ failure' = NoError
          /\ lines' = <<>>
          /\ UNCHANGED <<yielded, callbackLog, received>>
     /\ exit' = "DONE" =>
          /\ gpc' = "done"
          /\ reader' = "released"
          /\ lines' = <<>> /\ netbuf' = <<>>
          /\ yielded' = Fragments(BeforeDone(Records(received')))
     /\ exit = "DONE" => UNCHANGED <<gpc, yielded, callbackLog, received, exit>>
    ]_vars

C18_Witness ==
  /\ exit = "DONE"
  /\ gpc = "done"
  /\ Len(Records(received)) = 3
  /\ IsDeltaRecord(Records(received)[1])
  /\ IsDoneRecord(Records(received)[2])
  /\ IsDeltaRecord(Records(received)[3])
  /\ yielded = <<"A">>
  /\ callbackLog = <<"onContent(A)">>

\* the generator has ended
Ended == gpc \in {"done", "failed"}

\* C19: the reader, once taken, is released when the generator ends, on
\* every path: the body's end, [DONE], a failed read, the consumer's
\* return; it is held exactly while the generator is between taking it and
\* ending, and a generator that ends without it never took it.
C19_ReaderReleased ==
  /\ Ended => reader # "locked"
  /\ (Ended /\ exit \in {"end", "DONE", "readError", "return"}) => reader = "released"
  /\ (Ended /\ exit \in {"connect", "noBody"}) => reader = "none"
  /\ reader = "locked" <=> gpc \in {"read", "lines", "suspendedYield"}

C19_Witness ==
  /\ gpc = "failed"
  /\ exit = "readError"
  /\ reader = "released"
  /\ yielded = <<"A">>
  /\ failure.class = "TypeError"

\* C20: a sequence that fails because a read failed, or because the response
\* has no body, fails with a Network error: retryable, without status code.
C20_StreamFailsWithNetworkError ==
  (gpc = "failed" /\ exit \in {"readError", "noBody"}) =>
    /\ failure.class = "NetworkError"
    /\ failure.isRetryable
    /\ failure.statusCode = Undefined

\* the entries of the callback log that record a call of onError
OnErrorCalls == SelectSeq(callbackLog, LAMBDA entry : entry \in {"onError(Error)", "onError(TypeError)"})

\* C21: a sequence that fails because a read failed, or because the response
\* has no body, has called the error callback it was given exactly once with
\* the failure, and as the last thing before the failure reached the
\* consumer.
C21_OnErrorOnceBeforeFailure ==
  (gpc = "failed" /\ exit \in {"readError", "noBody"} /\ "onError" \in options) =>
    /\ OnErrorCalls = callback(options, "onError", failure.class)
    /\ callbackLog # <<>>
    /\ callbackLog[Len(callbackLog)] = Head(OnErrorCalls)

\* C22: once the reader of the body is taken, no step issues the request
\* again; a read that fails ends the sequence with that failure and yields
\* nothing, a failed sequence stays as it is, and what is yielded only grows
\* and stays a prefix of the deltas received, so no delta is yielded twice.
C22_NoRetryAfterConnect ==
  /\ [](IsPrefix(yielded, ExpectedYield))
  /\ [][/\ reader # "none" =>
             /\ transportCalls' = transportCalls
             /\ calls' = calls
             /\ pc' = pc
        /\ (gpc = "read" /\ exit' = "readError") =>
             /\ gpc' = "failed"
             /\ failure' \in {typedErrorOf(e) : e \in ReadFailures}
             /\ yielded' = yielded
        /\ gpc = "failed" => UNCHANGED <<gpc, failure, yielded, transportCalls, exit>>
        /\ IsPrefix(yielded, yielded')]_vars

C22_Witness ==
  /\ gpc = "failed"
  /\ exit = "readError"
  /\ transportCalls = 2
  /\ yielded = <<"A">>
  /\ "onError" \in options

\* what the initial request of a stream failed with is of a retryable kind:
\* a connectivity fault, a 5xx response, a 429 response
RetryableConnectFailure(e) ==
  \/ InstanceOf(e, "TypeError") /\ Includes(e.message, "fetch")
  \/ e.message \in {<<"HTTP", ToString(status)>> :
                        status \in {s \in StreamErrorStatuses : s = 429 \/ s >= 500}}

\* C23: the initial request of a stream is retried under the retry policy:
\* when the sequence fails to connect with a failure of a retryable kind,
\* all maxAttempts requests have been issued; a 4xx response other than 429
\* ends the run of execute at once; while execute runs nothing is yielded
\* and no callback is called.
C23_InitialRequestRetried ==
  /\ (gpc = "failed" /\ exit = "connect" /\ RetryableConnectFailure(failure)) =>
        calls[1] = config.maxAttempts
  /\ (gpc = "failed" /\ exit = "connect" /\ ~RetryableConnectFailure(failure)) =>
        /\ pc[1] = "rejected"
        /\ timer[1] # "pending"
  /\ gpc = "connect" => yielded = <<>> /\ callbackLog = <<>>

\* C24: a deadline that fires makes the attempt throw a Network error with
\* message 'Request timeout' (retryable, without status code); a deadline is
\* pending exactly while the fetch of an attempt of sendMessage or
\* countTokens is in flight, so every attempt has its own and none outlives
\* its attempt; a fired deadline is that of the attempt that threw the
\* timeout.
C24_TimeoutIsNetworkError ==
  /\ [](\A r \in Runs :
          /\ deadline[r] = "pending" <=>
                (kind[r] \in {"sendMessage", "countTokens"}
                   /\ pc[r] = "operation" /\ stage[r] = "fetch")
          /\ deadline[r] = "fired" =>
                (pc[r] \in {"sleep", "rejected"}
                   /\ thrown[r].message = <<"Request timeout">>))
  /\ [][\A r \in Runs :
          /\ (deadline[r] = "pending" /\ deadline'[r] = "fired") =>
                /\ thrown'[r] = WithId(NetworkError(<<"Request timeout">>, <<>>), calls[r])
                /\ thrown'[r].class \notin {"ServerError", "ClientError"}
                /\ thrown'[r].isRetryable
                /\ thrown'[r].statusCode = Undefined
          /\ (calls'[r] = calls[r] + 1) => deadline'[r] = "pending"]_vars

C24_Witness ==
  /\ kind[1] = "sendMessage"
  /\ pc[1] = "rejected"
  /\ calls[1] = 2
  /\ deadline[1] = "fired"
  /\ rejection[1].class = "NetworkError"
  /\ rejection[1].message = <<"Request timeout">>

(***************************************************************************)
(* Properties of ErrorClassifier (SpecClassify).                           *)
(***************************************************************************)
\* the numerals among the retry-after headers and the integers they denote
Numerals ==
  {[text |-> <<"6", "0">>, value |-> 60], [text |-> <<"0">>, value |-> 0],
   [text |-> <<"7">>, value |-> 7]}

\* C25: classifyHttpError of a 429 response returns a RateLimit error with
\* status code 429 whose retryAfter is the integer the retry-after header
\* denotes, and undefined without the header, whether the body parses or not.
C25_RateLimitCarriesRetryAfter ==
  (call.fn = "classifyHttpError" /\ call.arg.status = 429) =>
    /\ call.ret.class = "RateLimitError"
    /\ call.ret.statusCode = Num(429)
    /\ call.arg.retryAfter = <<>> => call.ret.retryAfter = Undefined
    /\ \A n \in Numerals :
          call.arg.retryAfter = n.text => call.ret.retryAfter = Num(n.value)

C25_Witness ==
  /\ call.fn = "classifyHttpError"
  /\ call.arg.status = 429
  /\ ~call.arg.parses
  /\ call.arg.retryAfter = <<"6", "0">>
  /\ call.ret.retryAfter = Num(60)

\* C26: classifyHttpError returns a classified error for every status that
\* is not 2xx, by the status alone: RateLimit for 429, Client (not retryable)
\* with the status for the other 400..499, Server (retryable) with the
\* status for the rest.
C26_StatusPartition ==
  (call.fn = "classifyHttpError" /\ ~call.arg.ok) =>
    LET status == call.arg.status
        e == call.ret
    IN  /\ InstanceOf(e, "ClaudeError")
        /\ e.statusCode = Num(status)
        /\ status = 429 => e.class = "RateLimitError" /\ e.isRetryable
        /\ (status \in 400..499 /\ status # 429) =>
              e.class = "ClientError" /\ ~e.isRetryable
        /\ status \notin 400..499 => e.class = "ServerError" /\ e.isRetryable

C26_Witness ==
  /\ call.fn = "classifyHttpError"
  /\ call.arg.status = 404
  /\ ~call.arg.parses
  /\ call.ret.class = "ClientError"
  /\ call.ret.statusCode = Num(404)

\* the string form of a value that is no classified error and no
\* connectivity fault
StringForms ==
  {[class |-> "null", text |-> <<"null">>],
   [class |-> "undefined", text |-> <<"undefined">>],
   [class |-> "object", text |-> <<"[object Object]">>]}

RequestFields == {"model", "max_tokens", "temperature", "messages", "stream", "system"}

\* C28: every field of the request of a send or stream call has the value
\* the per-call options give it when they have that field; otherwise model,
\* max_tokens and temperature are those of the instance configuration,
\* messages is the argument, stream is true for a stream call, and the field
\* is absent in every other case; the request has no other field, and no
\* call changes the instance configuration, so a call without options gives
\* the same defaults after any calls.
C28_RequestFromOptionsThenDefaults ==
  /\ [](call.fn \in {"sendMessage", "streamMessage"} =>
          LET opts == call.arg.options
              request == call.ret
          IN  /\ DOMAIN request \subseteq RequestFields
              /\ \A k \in RequestFields \cap DOMAIN opts :
                    k \in DOMAIN request /\ request[k] = opts[k]
              /\ "model" \notin DOMAIN opts => request.model = clientConfig.model
              /\ "max_tokens" \notin DOMAIN opts =>
                    request.max_tokens = clientConfig.maxTokens
              /\ "temperature" \notin DOMAIN opts =>
                    request.temperature = clientConfig.temperature
              /\ "messages" \notin DOMAIN opts => request.messages = call.arg.messages
              /\ "stream" \notin DOMAIN opts =>
                    IF call.fn = "streamMessage" THEN request.stream = TRUE
                    ELSE "stream" \notin DOMAIN request
              /\ "system" \notin DOMAIN opts => "system" \notin DOMAIN request)
  /\ [][clientConfig' = clientConfig]_vars

C28_Witness ==
  /\ call.fn = "streamMessage"
  /\ DOMAIN call.arg.options = {"max_tokens", "onContent"}
  /\ call.ret.max_tokens = 256
  /\ call.ret.model = "claude-opus-4-20250514"
  /\ clientConfig.model = "claude-opus-4-20250514"
  /\ clientConfig.maxTokens = 1024

(***************************************************************************)
(* Properties of createAIClient (SpecFactory).                             *)
(***************************************************************************)
\* the provider that is to be resolved from an override and a value of
\* AI_PROVIDER
ResolvedProvider(override, env) ==
  IF override # <<>> THEN override[1]
  ELSE IF env \in {<<"claude">>, <<"openai">>} THEN env[1]
  ELSE "claude"

\* C29: createAIClient resolves the provider to the override of the
\* configuration when there is one, else to AI_PROVIDER when it names a
\* supported provider, else to 'claude'; it constructs the OpenAI client
\* exactly when that provider is 'openai' and the Claude client otherwise.
C29_ProviderResolution ==
  call.fn = "createAIClient" =>
    LET override == call.arg.config.providerOverride
        resolved == ResolvedProvider(override, call.arg.env)
    IN  /\ call.ret.provider = resolved
        /\ override # <<>> => call.ret.provider = override[1]
        /\ call.ret.client = "OpenAIClient" <=> resolved = "openai"
        /\ call.ret.client = "ClaudeClient" <=> resolved # "openai"
        /\ call.ret.config = call.arg.config

C29_Witness ==
  /\ call.fn = "createAIClient"
  /\ call.arg.config.providerOverride = <<"claude">>
  /\ call.arg.env = <<"openai">>
  /\ AI_PROVIDER = <<"openai">>
  /\ call.ret.client = "ClaudeClient"

(***************************************************************************)
(* Properties of ConversationHistoryManager (SpecHistory).                 *)
(***************************************************************************)
\* the tokenCount arguments of the addMessage calls of a conversation, an
\* omitted one counting 0
TokenCountsOf(id) == [i \in 1..Len(added[id]) |-> OrZero(added[id][i].tokenCount)]

\* the message arguments of the addMessage calls of a conversation, in order
MessagesOf(id) == [i \in 1..Len(added[id]) |-> added[id][i].message]

\* C30: every stored conversation has messageCount equal to the length of
\* its message list, totalTokens equal to the sum of the tokenCount
\* arguments of its addMessage calls, and its messages in the order they
\* were added; addMessage with an id that is not stored throws 'Conversation
\* <id> not found' and changes no conversation, and addMessage with a stored
\* id changes that conversation only.
C30_HistoryCounts ==
  /\ [](\A id \in DOMAIN conversations :
          LET conversation == conversations[id] IN
          /\ conversation.meta.id = id
          /\ conversation.meta.messageCount = Len(conversation.messages)
          /\ conversation.meta.totalTokens = SeqSum(TokenCountsOf(id))
          /\ conversation.messages = MessagesOf(id))
  /\ [][/\ (call'.fn = "addMessage" /\ call'.arg.id \notin DOMAIN conversations) =>
             /\ call'.ret = JsError("Error", <<"Conversation", call'.arg.id, "not found">>)
             /\ conversations' = conversations
        /\ (call'.fn = "addMessage" /\ call'.arg.id \in DOMAIN conversations) =>
             /\ call'.ret = NoError
             /\ DOMAIN conversations' = DOMAIN conversations
             /\ \A id \in DOMAIN conversations \ {call'.arg.id} :
                   conversations'[id] = conversations[id]]_vars

C30_Witness ==
  /\ {"c1", "conv_1"} \subseteq DOMAIN conversations
  /\ conversations["c1"].meta.totalTokens = 5
  /\ conversations["c1"].meta.messageCount = 2
  /\ conversations["c1"].messages[2].role = "assistant"
  /\ conversations["conv_1"].meta.messageCount = 1
  /\ call.fn = "addMessage"
  /\ call.arg.id = "non-existent"
  /\ call.ret.class = "Error"

\* the estimated tokens of a list of messages, in quarters of a token
RECURSIVE EstimatedQuarters(_)
EstimatedQuarters(ms) ==
  IF ms = <<>> THEN 0 ELSE Len(Head(ms).content) + EstimatedQuarters(Tail(ms))

\* the last n elements of a list
Suffix(ms, n) == SubSeq(ms, Len(ms) - n + 1, Len(ms))

UnparseableHeader(header) ==
  header # <<>> /\ \A n \in Numerals : header # n.text

\* C32: the error classifyHttpError returns for a 429 response whose
\* retry-after header is present and denotes no integer has no retryAfter
\* (undefined), and calculateDelay gives it the jittered backoff delays.
C32_UnparseableRetryAfterUnset ==
  (call.fn = "classifyHttpError" /\ call.arg.status = 429
     /\ UnparseableHeader(call.arg.retryAfter)) =>
    /\ call.ret.retryAfter = Undefined
    /\ ~retryAfterBranch(call.ret)
    /\ calculateDelay(call.ret, config.initialDelay, 1)
          = FloorRandomTimes(Min(config.initialDelay, config.maxDelay))

\* the message a response without a usable body message gets
GenericMessage(statusCode) == <<"HTTP error", ToString(statusCode)>>

\* C33 as stated: the message of the error classifyHttpError returns is the
\* body's error.message when the body parses and carries one, and
\* "HTTP error {status}" otherwise, for every status, 429 included, whether
\* the body has no message or cannot be parsed.
C33_MessageFromBodyOrGeneric ==
  call.fn = "classifyHttpError" =>
    call.ret.message =
      IF call.arg.parses /\ call.arg.message # <<>> THEN call.arg.message
      ELSE GenericMessage(call.arg.status)

\* C33, amended: the message is the body's error.message when the body
\* parses and carries one; "HTTP error {status}" when the body parses
\* without one, and when it cannot be parsed and the status is not 429;
\* "Rate limit exceeded (429)" when the body of a 429 cannot be parsed.
C33_MessageFromBodyOrFallback ==
  call.fn = "classifyHttpError" =>
    call.ret.message =
      IF call.arg.parses /\ call.arg.message # <<>> THEN call.arg.message
      ELSE IF ~call.arg.parses /\ call.arg.status = 429
      THEN <<"Rate limit exceeded", "(", "429", ")">>
      ELSE GenericMessage(call.arg.status)

C33_Witness ==
  /\ call.fn = "classifyHttpError"
  /\ call.arg.status = 429
  /\ ~call.arg.parses
  /\ call.arg.retryAfter = <<"6", "0">>
  /\ call.ret.class = "RateLimitError"
  /\ call.ret.message = <<"Rate limit exceeded", "(", "429", ")">>
  /\ call.ret.retryAfter = Num(60)

\* C34: within one execute run the backoff base becomes
\* min(base * backoffFactor, maxDelay) after every retried failure, whichever
\* branch gave the delay; for a failure outside the retry-after branch the
\* delays possible at attempt a - 1 are all possible at attempt a (the jitter
\* ceiling does not decrease), and the delay taken is below maxDelay.
C34_BaseUpdatedCeilingsBounded ==
  /\ [](\A r \in Runs :
          (pc[r] = "sleep" /\ ~retryAfterBranch(thrown[r])) =>
            /\ retryDelay[r] \in calculateDelay(thrown[r], delay[r], attempt[r])
            /\ \A a \in 2..attempt[r] :
                  calculateDelay(thrown[r], delay[r], a - 1)
                    \subseteq calculateDelay(thrown[r], delay[r], a)
            /\ \A a \in 1..attempt[r] :
                  \A d \in calculateDelay(thrown[r], delay[r], a) :
                    d < config.maxDelay
            /\ retryDelay[r] < config.maxDelay)
  /\ [][\A r \in Runs :
          (pc[r] = "sleep" /\ pc'[r] # "sleep") =>
            delay'[r] = Min(delay[r] * config.backoffFactor, config.maxDelay)]_vars

\* the second failure of a run, outside the retry-after branch, with the
\* exponential 2 * 2 capped at maxDelay 3 and the base already at the cap
C34_Witness ==
  /\ pc[1] = "sleep"
  /\ attempt[1] = 2
  /\ ~retryAfterBranch(thrown[1])
  /\ config.initialDelay = 2
  /\ config.backoffFactor = 2
  /\ delay[1] = config.maxDelay
  /\ retryDelay[1] = config.maxDelay - 1

RECURSIVE DecodeLines(_, _, _, _)
\* the loop body applied to the lines ls in one go, from the message id and
\* the deltas and callback invocations acc
DecodeLines(ls, opts, id, acc) ==
  IF ls = <<>> THEN acc
  ELSE LET o == forBody(Head(ls), opts, id) IN
       IF o.returns THEN acc
       ELSE DecodeLines(Tail(ls), opts, o.messageId,
                        [yielded |-> acc.yielded \o o.yields,
                         invoked |-> acc.invoked \o o.invoked])

\* what the decoder delivers for the text when it arrives as one chunk
DecodeWhole(text, opts) ==
  DecodeLines(Records(text), opts, "", [yielded |-> <<>>, invoked |-> <<>>])

\* C35: the deltas yielded and the callbacks invoked are those the text
\* received so far gives when taken as one chunk, however it was cut into
\* chunks: whenever the decoder waits for a read or has ended, and, while
\* lines of a chunk are still to be processed, once these are processed;
\* between two reads the buffer holds the text after the last newline.
C35_ChunkingIndependent ==
  LET whole == DecodeWhole(received, options)
      segments == split(received, <<>>)
  IN  /\ (gpc = "read" \/ exit \in {"end", "DONE"}) =>
            /\ yielded = whole.yielded
            /\ callbackLog = whole.invoked
      /\ gpc = "read" => buffer = segments[Len(segments)]
      /\ gpc \in {"lines", "suspendedYield"} =>
            DecodeLines(lines, options, messageId,
                        [yielded |-> yielded, invoked |-> callbackLog]) = whole
      /\ exit = "readError" => yielded = whole.yielded

\* a delta was delivered, and the next line is cut inside its JSON payload
C35_Witness ==
  /\ gpc = "read"
  /\ buffer = <<"da", "ta: ", DeltaOpen>>
  /\ yielded = <<"A">>
  /\ callbackLog = <<"onContent(A)">>
  /\ Len(Records(received)) = 1

\* the options with the same callbacks, none of which throws
Returning(opts) == opts \cap AllCallbacks

\* the callback the loop body calls for the line throws
CallbackThrows(line, opts) ==
  /\ IsDataRecord(line)
  /\ ~IsDoneRecord(line)
  /\ JSONParse(slice6(line)).valid
  /\ \/ JSONParse(slice6(line)).type = "message_start" /\ throws(opts, "onStart")
     \/ JSONParse(slice6(line)).type = "content_block_delta" /\ throws(opts, "onContent")
     \/ JSONParse(slice6(line)).type = "message_stop" /\ throws(opts, "onComplete")

\* C36: the pass of the loop over a record whose callback (onStart,
\* onContent, onComplete) throws yields nothing, calls no further callback
\* (onError in particular) and neither ends nor fails the sequence, which
\* goes on with the next line or the next read, the reader still held; the
\* records after it are processed as with callbacks that return: the
\* callbacks called are the same, and so are the deltas yielded unless
\* onContent is the one that throws, when none is yielded.
C36_CallbackErrorSwallowed ==
  /\ []((gpc = "read" \/ exit \in {"end", "DONE"}) =>
          /\ callbackLog = DecodeWhole(received, Returning(options)).invoked
          /\ yielded = (IF throws(options, "onContent") THEN <<>>
                        ELSE DecodeWhole(received, Returning(options)).yielded))
  /\ [][/\ (gpc = "lines" /\ CallbackThrows(Head(lines), options)) =>
             /\ yielded' = yielded
             /\ Len(callbackLog') = Len(callbackLog) + 1
             /\ OnErrorCalls' = <<>>
             /\ lines' = Tail(lines)
             /\ gpc' = (IF Tail(lines) = <<>> THEN "read" ELSE "lines")
             /\ reader' = "locked"
             /\ exit' = "none"
             /\ failure' = NoError
        /\ gpc' = "failed" => exit' \in {"connect", "noBody", "readError"}
       ]_vars

\* onStart threw on the first record, and the delta after it was delivered
C36_Witness ==
  /\ exit = "end"
  /\ throws(options, "onStart")
  /\ Len(Records(received)) = 2
  /\ CallbackThrows(Records(received)[1], options)
  /\ IsDeltaRecord(Records(received)[2])
  /\ yielded = <<"A">>
  /\ callbackLog = <<"onStart(m1)", "onContent(A)">>

\* the text after the last newline of a text
Unterminated(text) == LET segments == split(text, <<>>) IN segments[Len(segments)]

\* C40: when the body ends, what the buffer holds is dropped: the step
\* yields nothing, calls no callback and ends the sequence without failure;
\* a sequence ended by the end of the body has delivered what the
\* newline-terminated lines give, so a last delta record without its newline
\* was not yielded (with the newline it would have been), and a last
\* 'data: [DONE]' without its newline leaves the end that of the body.
C40_UnterminatedLineDropped ==
  /\ [](exit = "end" =>
          /\ gpc = "done" /\ failure = NoError /\ buffer = <<>>
          /\ yielded = DecodeWhole(received, options).yielded
          /\ callbackLog = DecodeWhole(received, options).invoked
          /\ IsDeltaRecord(Unterminated(received)) =>
                Len(DecodeWhole(Append(received, NL), options).yielded)
                   = Len(yielded) + 1)
  /\ [][(gpc = "read" /\ gpc' = "done") =>
          /\ exit' = "end"
          /\ reader' = "released"
          /\ UNCHANGED <<yielded, callbackLog, failure, received>>]_vars

\* the body ended after a delta record and a second one without its newline
C40_Witness ==
  /\ exit = "end"
  /\ Len(Records(received)) = 1
  /\ Unterminated(received) = DataPrefixCut \o <<DeltaOpen, "\"A\"}}">>
  /\ yielded = <<"A">>
  /\ callbackLog = <<"onContent(A)">>

\* run r's sendMessage call resolves in this step
Resolves(r) ==
  kind[r] = "sendMessage" /\ pc[r] = "operation" /\ pc'[r] = "resolved"

C38_NoLostUpdate ==
  /\ [](/\ usage.requestCount = Len(records)
        /\ usage.totalInputTokens = SeqSum(InputTokens)
        /\ usage.totalOutputTokens = SeqSum(OutputTokens)
        /\ usage.totalCacheCreationTokens = SeqSum(CacheCreationTokens)
        /\ usage.totalCacheReadTokens = SeqSum(CacheReadTokens))
  /\ [][\A r \in Runs :
          /\ (kind[r] = "sendMessage" /\ pc[r] = "operation" /\ stage[r] = "json"
                /\ response[r].parses /\ isSessionLimitReached
                /\ pc'[r] # pc[r]) =>
               /\ pc'[r] = "resolved"
               /\ usage'.requestCount = usage.requestCount + 1
               /\ records' = Append(records, response[r].usage)
          /\ (pc[r] \in {"operation", "sleep"} /\ pc'[r] = "rejected") =>
               ~Includes(rejection'[r].message, "Session token limit of")
       ]_vars

\* two calls, both admitted before the first response, which reached the
\* limit, and both resolved
C38_Witness ==
  /\ started = 2
  /\ \A r \in Runs : kind[r] = "sendMessage" /\ pc[r] = "resolved"
  /\ Len(records) = 2
  /\ records[1].input_tokens = Num(60000)
  /\ records[1].output_tokens = Num(40000)
  /\ maxSessionTokens = Num(100000)
  /\ usage.requestCount = 2
  /\ usage.totalInputTokens = 60001
  /\ usage.totalOutputTokens = 40001

\* C39: a streamMessage call checks the budget and issues no request; the
\* request of a sequence is issued by its first next(), whatever the budget
\* is by then; a step of one sequence leaves the other as it is, and each
\* sequence yields, in order, the deltas of the text its own reader
\* delivered; a sequence that has ended or failed, and a call that was
\* rejected, yields, reads and requests nothing more and stays ended.
C39_LazyPerCallSequences ==
  /\ [](/\ transportCalls = seqs[1].requests + seqs[2].requests
        /\ \A i \in Sequences :
             /\ seqs[i].gpc \in {"none", "rejected", "suspendedStart"} =>
                  seqs[i].requests = 0 /\ seqs[i].received = <<>>
             /\ IsPrefix(seqs[i].yielded, DecodeWhole(seqs[i].received, {}).yielded)
             /\ seqs[i].gpc = "read" =>
                  /\ seqs[i].yielded = DecodeWhole(seqs[i].received, {}).yielded
                  /\ seqs[i].buffer = Unterminated(seqs[i].received)
                  /\ seqs[i].received \o seqs[i].wire \in StreamBodies)
  /\ [][\A i \in Sequences :
          /\ (seqs[i].gpc = "none" /\ seqs'[i] # seqs[i]) =>
               /\ seqs'[i].gpc = (IF isSessionLimitReached THEN "rejected"
                                  ELSE "suspendedStart")
               /\ transportCalls' = transportCalls
          /\ (seqs[i].gpc = "suspendedStart" /\ seqs'[i] # seqs[i]) =>
               /\ seqs'[i].gpc = "connect"
               /\ seqs'[i].requests = 1
               /\ transportCalls' = transportCalls + 1
          /\ seqs[i].gpc \in {"done", "failed", "rejected"} =>
               /\ seqs'[i].gpc = seqs[i].gpc
               /\ seqs'[i].yielded = seqs[i].yielded
               /\ seqs'[i].received = seqs[i].received
               /\ seqs'[i].requests = seqs[i].requests
               /\ seqs'[i].reader = seqs[i].reader
          /\ seqs'[i] # seqs[i] =>
               \A j \in Sequences \ {i} : seqs'[j] = seqs[j]
       ]_vars

\* two sequences under way together, each with a delta of its own body
\* delivered and a partial line in its own buffer, the budget reached since
C39_Witness ==
  /\ isSessionLimitReached
  /\ seqs[1].gpc = "read"
  /\ seqs[1].yielded = <<"A">>
  /\ seqs[1].buffer = <<"data: ">>
  /\ seqs[2].gpc = "suspendedYield"
  /\ seqs[2].yielded = <<"">>
  /\ seqs[2].buffer = <<"data: ">>
  /\ transportCalls = 3

====
